---------------------------- MODULE Spec2Model ----------------------------
(***************************************************************************)
(* Model of the unit-price browser extension (okuo/fudosan-tanka-viewer).  *)
(*                                                                         *)
(* Texts are sequences of character tokens.  The digits and "." and ","    *)
(* stand for themselves; the other tokens are                              *)
(*   "oku"   the large-unit character (1 oku = 10000 man)                  *)
(*   "man"   the small-unit character                                      *)
(*   "yen"   the currency character                                        *)
(*   "LABEL" the four characters of the floor-area label, always together  *)
(*   "m"     the latin letter m,  "sqm" the square-metre character         *)
(*   "PRICE" the two characters of the price label, always together        *)
(*   "sp"    a whitespace character,  "x" any other character.             *)
(*                                                                         *)
(* Numbers are decimal fractions n / 10^e kept in lowest decimal form, so  *)
(* that equal values are equal records.  JavaScript's null and NaN are the *)
(* two further values Null and NaN.  Arithmetic is exact: the model does   *)
(* not reproduce binary floating-point rounding error.                     *)
(***************************************************************************)
EXTENDS Integers, Sequences, FiniteSets, TLC

VARIABLES
    cAmount,   \* calculator input: amount
    cArea,     \* calculator input: area
    cTsubo,    \* result of calculateTsuboPrice, -1 before the call
    cHeihei,   \* result of calculateHeiheiPrice, -1 before the call
    exText,    \* extractor input
    exResult,  \* extractor result
    exDone,    \* TRUE once extractNumber has run on exText
    csvProperties,  \* generator input: the records
    csvText,        \* generator result
    csvDone,        \* TRUE once generateCSV has run on csvProperties
    hostname,           \* window.location.hostname, as the sequence of its parts
    dom,                \* the document
    deferred,           \* content the host page has still to add
    pc,                 \* "loading" until init() has run, then "ready",
                        \* or "failed" when init() was left by an exception
    processedElements,  \* the Set processedElements
    calculationCache,   \* the Map calculationCache
    calcLog,            \* the pairs the calculators were run on, in order
    mutations,          \* the records waiting for the observer callback
    button,             \* the export control: "none", "enabled", "disabled"
    exportPhase,        \* where the export sequence stands
    properties,         \* the records of the running export
    exportIndex,        \* the record the export loop is at (from 1)
    exports,            \* the number of exports started
    passes,             \* the number of calls of processAllProperties
    faulty,             \* the element whose processing raises, NoNode for none
    fetchLog            \* the fetches and pauses of the running export, in order

calcVars == <<cAmount, cArea, cTsubo, cHeihei>>
exVars == <<exText, exResult, exDone>>
csvVars == <<csvProperties, csvText, csvDone>>
pageVars == <<hostname, dom, deferred, pc, processedElements, calculationCache,
              calcLog, mutations, button, exportPhase, properties, exportIndex, exports,
              passes, faulty, fetchLog>>

---------------------------------------------------------------------------
(* Bounds of the model *)

MaxLen == 4          \* longest generated text, in tokens
MaxAmount == 12      \* largest generated calculator amount
MaxAreaTenths == 12  \* largest generated calculator area, in tenths
MaxNode == 16        \* largest node identity of a document
MaxExports == 2      \* exports started in one page view
MaxHost == 2         \* most parts of a generated hostname
MaxField == 2        \* longest generated field value of a record, in characters

---------------------------------------------------------------------------
(* Numbers *)

Digits == {"0", "1", "2", "3", "4", "5", "6", "7", "8", "9"}

DigitVal(c) ==
    CASE c = "0" -> 0 [] c = "1" -> 1 [] c = "2" -> 2 [] c = "3" -> 3
      [] c = "4" -> 4 [] c = "5" -> 5 [] c = "6" -> 6 [] c = "7" -> 7
      [] c = "8" -> 8 [] c = "9" -> 9

IsDigit(c) == c \in Digits

RECURSIVE Pow10(_)
Pow10(e) == IF e = 0 THEN 1 ELSE 10 * Pow10(e - 1)

Null == [k |-> "null", n |-> 0, e |-> 0]
NaN == [k |-> "NaN", n |-> 0, e |-> 0]

RECURSIVE Num(_, _)
Num(n, e) ==
    IF e > 0 /\ n % 10 = 0 THEN Num(n \div 10, e - 1)
    ELSE [k |-> "num", n |-> n, e |-> e]

IsNum(v) == v.k = "num"

Max(a, b) == IF a >= b THEN a ELSE b

NumAdd(a, b) ==
    LET e == Max(a.e, b.e)
    IN  Num(a.n * Pow10(e - a.e) + b.n * Pow10(e - b.e), e)

NumTimes(a, c) == Num(a.n * c, a.e)

\* JavaScript truthiness of a number-or-null value
Truthy(v) == IsNum(v) /\ v.n # 0

\* v > 0; comparisons with null or NaN are false
Positive(v) == IsNum(v) /\ v.n > 0

---------------------------------------------------------------------------
(* parseFloat on a text of digits and dots *)

RECURSIVE DigitsValue(_)
DigitsValue(s) ==
    IF s = <<>> THEN 0
    ELSE 10 * DigitsValue(SubSeq(s, 1, Len(s) - 1)) + DigitVal(s[Len(s)])

\* length of the longest prefix of s made of digits
RECURSIVE DigitPrefix(_)
DigitPrefix(s) ==
    IF s # <<>> /\ IsDigit(Head(s)) THEN 1 + DigitPrefix(Tail(s)) ELSE 0

parseFloat(s) ==
    LET ip == DigitPrefix(s)
        hasDot == ip < Len(s) /\ s[ip + 1] = "."
        fp == IF hasDot THEN DigitPrefix(SubSeq(s, ip + 2, Len(s))) ELSE 0
    IN  IF ip + fp = 0 THEN NaN
        ELSE Num(DigitsValue(SubSeq(s, 1, ip)) * Pow10(fp)
                   + DigitsValue(SubSeq(s, ip + 2, ip + 1 + fp)), fp)

---------------------------------------------------------------------------
(* The regular expressions of extractNumber *)

AllDigits(t, i, j) == i <= j /\ \A k \in i..j : IsDigit(t[k])

\* t[i..j] matches \d+(?:\.\d+)?
IsDecimal(t, i, j) ==
    \/ AllDigits(t, i, j)
    \/ \E d \in (i + 1)..(j - 1) :
          t[d] = "." /\ AllDigits(t, i, d - 1) /\ AllDigits(t, d + 1, j)

\* t[i..j] matches \d+(?:,\d+)?(?:\.\d+)?
IsManNumber(t, i, j) ==
    \/ IsDecimal(t, i, j)
    \/ \E c \in (i + 1)..(j - 1) :
          t[c] = "," /\ AllDigits(t, i, c - 1) /\ IsDecimal(t, c + 1, j)

Smallest(S) == CHOOSE x \in S : \A y \in S : x <= y
Largest(S) == CHOOSE x \in S : \A y \in S : x >= y

NoMatch == <<0, 0>>

\* The leftmost match, taken greedily, among the candidate <<i, j>> spans
Leftmost(M) ==
    IF M = {} THEN NoMatch
    ELSE LET i == Smallest({m[1] : m \in M})
         IN  <<i, Largest({m[2] : m \in {x \in M : x[1] = i}})>>

Spans(t) == {<<i, j>> \in (1..Len(t)) \X (1..Len(t)) : i <= j}

\* /LABEL[^\d]*(\d+(?:\.\d+)?)/ : the span of the captured number
LabelMatch(t) ==
    Leftmost({m \in Spans(t) :
        /\ IsDecimal(t, m[1], m[2])
        /\ \E l \in 1..(m[1] - 1) :
              t[l] = "LABEL" /\ \A k \in (l + 1)..(m[1] - 1) : ~IsDigit(t[k])})

IsUnit(c) == c \in {"m", "sqm"}

\* /(\d+(?:\.\d+)?)\s*[m sqm]/ : the span of the captured number
UnitMatch(t) ==
    Leftmost({m \in Spans(t) :
        /\ IsDecimal(t, m[1], m[2])
        /\ \E u \in (m[2] + 1)..Len(t) :
              IsUnit(t[u]) /\ \A k \in (m[2] + 1)..(u - 1) : t[k] = "sp"})

\* /(\d+(?:\.\d+)?)oku/
OkuMatch(t) ==
    Leftmost({m \in Spans(t) :
        IsDecimal(t, m[1], m[2]) /\ m[2] < Len(t) /\ t[m[2] + 1] = "oku"})

\* /(\d+(?:,\d+)?(?:\.\d+)?)man/
ManMatch(t) ==
    Leftmost({m \in Spans(t) :
        IsManNumber(t, m[1], m[2]) /\ m[2] < Len(t) /\ t[m[2] + 1] = "man"})

\* /[\d.]+/ : the first maximal run of digits and dots
RunMatch(t) ==
    Leftmost({m \in Spans(t) : \A k \in m[1]..m[2] : IsDigit(t[k]) \/ t[k] = "."})

Capture(t, m) == SubSeq(t, m[1], m[2])

\* text.replace(/,/g, '')
StripCommas(t) == SelectSeq(t, LAMBDA c : c # ",")

Includes(t, c) == \E k \in 1..Len(t) : t[k] = c

\* a null text (no element found); no page text contains this token
NullText == <<"NULL">>

---------------------------------------------------------------------------
(* extractNumber *)

\* a slip: the currency rules are consulted before the area rules
extractNumber_currencyFirst(text) ==
    IF text = NullText \/ text = <<>> THEN Null
    ELSE
      LET okuMatch == OkuMatch(text)
          manMatch == ManMatch(text)
          okuPart == IF okuMatch # NoMatch
                     THEN NumTimes(parseFloat(Capture(text, okuMatch)), 10000)
                     ELSE Num(0, 0)
          manPart == IF manMatch # NoMatch
                     THEN parseFloat(StripCommas(Capture(text, manMatch)))
                     ELSE Num(0, 0)
          totalMan == NumAdd(okuPart, manPart)
          stripped == StripCommas(text)
          match == RunMatch(stripped)
      IN  IF totalMan.n > 0 THEN totalMan
          ELSE IF Includes(text, "LABEL") /\ LabelMatch(text) # NoMatch
          THEN parseFloat(Capture(text, LabelMatch(text)))
          ELSE IF (Includes(text, "m") \/ Includes(text, "sqm")) /\ UnitMatch(text) # NoMatch
          THEN parseFloat(Capture(text, UnitMatch(text)))
          ELSE IF match # NoMatch THEN parseFloat(Capture(stripped, match))
          ELSE Null

extractNumber(text) ==
    IF text = NullText \/ text = <<>> THEN Null
    ELSE IF Includes(text, "LABEL") /\ LabelMatch(text) # NoMatch
    THEN parseFloat(Capture(text, LabelMatch(text)))
    ELSE IF (Includes(text, "m") \/ Includes(text, "sqm")) /\ UnitMatch(text) # NoMatch
    THEN parseFloat(Capture(text, UnitMatch(text)))
    ELSE
      LET okuMatch == OkuMatch(text)
          manMatch == ManMatch(text)
          okuPart == IF okuMatch # NoMatch
                     THEN NumTimes(parseFloat(Capture(text, okuMatch)), 10000)
                     ELSE Num(0, 0)
          manPart == IF manMatch # NoMatch
                     THEN parseFloat(StripCommas(Capture(text, manMatch)))
                     ELSE Num(0, 0)
          totalMan == NumAdd(okuPart, manPart)
          stripped == StripCommas(text)
          match == RunMatch(stripped)
      IN  IF totalMan.n > 0 THEN totalMan
          ELSE IF match # NoMatch THEN parseFloat(Capture(stripped, match))
          ELSE Null

---------------------------------------------------------------------------
(* The calculators *)

\* Math.round(p / q) for p >= 0, q > 0: the nearest integer, halves up
RoundDiv(p, q) == (p \div q) + (IF 2 * (p % q) >= q THEN 1 ELSE 0)

\* a slip: the area is multiplied by the conversion factor, not divided
calculateTsuboPrice_times(price, area) ==
    RoundDiv(price.n * Pow10(area.e) * 10000, area.n * Pow10(price.e) * 33058)

\* Math.round(price / (area / 3.3058))
calculateTsuboPrice(price, area) ==
    RoundDiv(price.n * Pow10(area.e) * 33058, area.n * Pow10(price.e) * 10000)

\* a slip: Math.floor in the place of Math.round
calculateHeiheiPrice_floor(price, area) ==
    (price.n * Pow10(area.e)) \div (area.n * Pow10(price.e))

\* Math.round(price / area)
calculateHeiheiPrice(price, area) ==
    RoundDiv(price.n * Pow10(area.e), area.n * Pow10(price.e))

---------------------------------------------------------------------------
(* The document.  A node holds its tag, its class names, its own text (taken
   to precede its child elements) and its child elements in order.  Node 0 is
   document.body.  An identity no element has had yet is Blank; an element that
   was removed from the document is Gone.  A link keeps its href among its
   class names, as "href=...".  An annotation block
   is one node: its spans (classes unit-price-label, -value, -na, -separator)
   are not nodes of the model, their text is the text of the block. *)

NoNode == -1
Body == 0

Blank == [tag |-> "", cls |-> {}, text |-> <<>>, kids |-> <<>>,
          ann |-> "", tsubo |-> 0, heihei |-> 0]

Gone == [Blank EXCEPT !.tag = "GONE"]

El(tag, cls, text, kids) ==
    [tag |-> tag, cls |-> cls, text |-> text, kids |-> kids,
     ann |-> "", tsubo |-> 0, heihei |-> 0]

Nodes(d) == DOMAIN d

RECURSIVE Desc(_, _), DescOfSeq(_, _)
\* the descendants of n in document order
Desc(d, n) == DescOfSeq(d, d[n].kids)
DescOfSeq(d, ks) ==
    IF ks = <<>> THEN <<>>
    ELSE <<Head(ks)>> \o Desc(d, Head(ks)) \o DescOfSeq(d, Tail(ks))

SeqToSet(q) == {q[i] : i \in 1..Len(q)}

IndexOf(q, x) == CHOOSE i \in 1..Len(q) : q[i] = x

\* parentElement
Parent(d, n) ==
    IF \E p \in Nodes(d) : n \in SeqToSet(d[p].kids)
    THEN CHOOSE p \in Nodes(d) : n \in SeqToSet(d[p].kids)
    ELSE NoNode

RECURSIVE Ancestors(_, _)
\* the proper ancestors of n
Ancestors(d, n) ==
    IF Parent(d, n) = NoNode THEN {}
    ELSE {Parent(d, n)} \cup Ancestors(d, Parent(d, n))

\* closest(tag) !== null
HasClosest(d, n, tag) == \E a \in {n} \cup Ancestors(d, n) : d[a].tag = tag

\* closest(tag)
Closest(d, n, tag) ==
    IF d[n].tag = tag THEN n
    ELSE IF \E a \in Ancestors(d, n) : d[a].tag = tag
    THEN CHOOSE a \in Ancestors(d, n) :
            d[a].tag = tag /\ \A b \in Ancestors(d, n) : d[b].tag = tag => b \in {a} \cup Ancestors(d, a)
    ELSE NoNode

\* nextElementSibling
NextElementSibling(d, n) ==
    LET p == Parent(d, n)
    IN  IF p = NoNode THEN NoNode
        ELSE LET i == IndexOf(d[p].kids, n)
             IN  IF i < Len(d[p].kids) THEN d[p].kids[i + 1] ELSE NoNode

RECURSIVE textContent(_, _), TextOfSeq(_, _)
textContent(d, n) == d[n].text \o TextOfSeq(d, d[n].kids)
TextOfSeq(d, ks) ==
    IF ks = <<>> THEN <<>>
    ELSE textContent(d, Head(ks)) \o TextOfSeq(d, Tail(ks))

\* the class names that contain the given substring
NamesWith(sub) ==
    CASE sub = "price" ->
           {"price-text", "property-price", "price", "dkr-cassetteitem_price--num",
            "cassette_price--num", "detailbox_property_price_txt",
            "text-price-regular", "price-size", "building-price-info", "price-main",
            "suumo-unit-price", "suumo-unit-price--compact"}
      [] sub = "area" ->
           {"dkr-cassetteitem_detail_text--area", "cassette_detail_text--area", "floor-area"}
      [] sub = "detail" ->
           {"detailbox", "detailbox_property_price_txt",
            "dkr-cassetteitem_detail_text--area", "cassette_detail_text--area",
            "card-box-inner__detail", "property-detail-table__block"}
      [] sub = "cassette" ->
           {"cassetteitem", "dottable--cassette", "dkr-cassetteitem_price--num",
            "cassette_price--num", "dkr-cassetteitem_detail_text--area",
            "cassette_detail_text--area"}

\* Selectors
Sel(kind, a, b, c) == [kind |-> kind, a |-> a, b |-> b, c |-> c]
Cls(c) == Sel("class", c, "", "")              \* .c
Cls2(c1, c2) == Sel("classes", c1, c2, "")     \* .c1.c2
ClsHas(sub) == Sel("classHas", sub, "", "")    \* [class*="sub"]
Tag(t) == Sel("tag", t, "", "")                \* t
TagCls(t, c) == Sel("tagClass", t, c, "")      \* t.c
Under(c, t) == Sel("under", c, t, "")          \* .c t
Under2(c, t1, t2) == Sel("under2", c, t1, t2)  \* .c t1 t2
Attr(v) == Sel("attr", v, "", "")              \* [data-component="v"], kept as a class token
LinkHas(sub) == Sel("linkHas", sub, "", "")    \* a[href*="sub"]
Link == Sel("link", "", "", "")                \* a[href]

\* the href values that contain the given substring
HrefsWith(sub) ==
    CASE sub = "/chuko/" -> {"href=/chuko/1", "href=/chuko/2", "href=/chuko/#top"}
      [] sub = "/ms/" -> {"href=/ms/1"}
      [] sub = "#" -> {"href=/chuko/#top"}
      [] sub = "" -> {"href=/chuko/1", "href=/chuko/2", "href=/chuko/#top", "href=/ms/1",
                      "href=/detail/1", "href=//"}

Matches(d, n, sel) ==
    CASE sel.kind = "class" -> sel.a \in d[n].cls
      [] sel.kind = "classes" -> sel.a \in d[n].cls /\ sel.b \in d[n].cls
      [] sel.kind = "classHas" -> d[n].cls \cap NamesWith(sel.a) # {}
      [] sel.kind = "tag" -> d[n].tag = sel.a
      [] sel.kind = "tagClass" -> d[n].tag = sel.a /\ sel.b \in d[n].cls
      [] sel.kind = "under" ->
           d[n].tag = sel.b /\ \E a \in Ancestors(d, n) : sel.a \in d[a].cls
      [] sel.kind = "under2" ->
           /\ d[n].tag = sel.c
           /\ \E m \in Ancestors(d, n) :
                 d[m].tag = sel.b /\ \E a \in Ancestors(d, m) : sel.a \in d[a].cls
      [] sel.kind = "attr" -> sel.a \in d[n].cls
      [] sel.kind = "linkHas" -> d[n].tag = "A" /\ d[n].cls \cap HrefsWith(sel.a) # {}
      [] sel.kind = "link" -> d[n].tag = "A" /\ d[n].cls \cap HrefsWith("") # {}

\* element.querySelectorAll(sel)
querySelectorAll(d, n, sel) == SelectSeq(Desc(d, n), LAMBDA x : Matches(d, x, sel))

\* element.querySelectorAll('sel1, sel2, ...')
querySelectorAllAny(d, n, sels) ==
    SelectSeq(Desc(d, n), LAMBDA x : \E i \in 1..Len(sels) : Matches(d, x, sels[i]))

First(q) == IF q = <<>> THEN NoNode ELSE Head(q)

\* element.querySelector(sel)
querySelector(d, n, sel) ==
    IF n = NoNode THEN NoNode ELSE First(querySelectorAll(d, n, sel))

Annotation == Cls("suumo-unit-price")

\* node.remove(): the node and its subtree leave the document
RemoveNode(d, n) ==
    LET gone == {n} \cup SeqToSet(Desc(d, n))
    IN  [x \in Nodes(d) |->
           IF x \in gone THEN Gone
           ELSE [d[x] EXCEPT !.kids = SelectSeq(d[x].kids, LAMBDA k : k # n)]]

\* parent.insertBefore(new, ref.nextSibling), or parent.appendChild(new)
InsertAfter(d, ref, id, node) ==
    LET p == Parent(d, ref)
        i == IndexOf(d[p].kids, ref)
    IN  [d EXCEPT ![id] = node,
                  ![p].kids = SubSeq(d[p].kids, 1, i) \o <<id>>
                                \o SubSeq(d[p].kids, i + 1, Len(d[p].kids))]

\* parent.appendChild(new)
AppendChild(d, p, id, node) ==
    [d EXCEPT ![id] = node, ![p].kids = Append(d[p].kids, id)]

Attached(d) == {Body} \cup SeqToSet(Desc(d, Body))

Unused(d) == {x \in Nodes(d) : d[x] = Blank}

\* the identity of the node document.createElement returns
NewNode(d) == CHOOSE x \in Unused(d) : \A y \in Unused(d) : x <= y

---------------------------------------------------------------------------
(* The text of an annotation block *)

DigitTok(k) ==
    CASE k = 0 -> "0" [] k = 1 -> "1" [] k = 2 -> "2" [] k = 3 -> "3" [] k = 4 -> "4"
      [] k = 5 -> "5" [] k = 6 -> "6" [] k = 7 -> "7" [] k = 8 -> "8" [] k = 9 -> "9"

RECURSIVE ToDigits(_)
ToDigits(n) == IF n < 10 THEN <<DigitTok(n)>> ELSE Append(ToDigits(n \div 10), DigitTok(n % 10))

RECURSIVE Grouped(_)
\* a comma before every group of three digits but the first
Grouped(ds) ==
    IF Len(ds) <= 3 THEN ds
    ELSE Grouped(SubSeq(ds, 1, Len(ds) - 3)) \o <<",">> \o SubSeq(ds, Len(ds) - 2, Len(ds))

\* Number.prototype.toLocaleString() of a non-negative integer
toLocaleString(n) == Grouped(ToDigits(n))

\* the innerHTML templates, as text: labels and separator are "x"
MetricsText(tsubo, heihei) ==
    <<"sp", "x", "sp">> \o toLocaleString(tsubo) \o <<"man", "yen", "sp", "x", "sp", "x", "sp">>
      \o toLocaleString(heihei) \o <<"man", "yen", "sp">>

PlaceholderText == <<"sp", "x", "sp", "x", "sp", "x", "sp", "x", "sp", "x", "sp">>

MetricsBlock(compact, tsubo, heihei) ==
    [tag |-> "DIV",
     cls |-> IF compact THEN {"suumo-unit-price", "suumo-unit-price--compact"}
             ELSE {"suumo-unit-price"},
     text |-> MetricsText(tsubo, heihei), kids |-> <<>>,
     ann |-> "metrics", tsubo |-> tsubo, heihei |-> heihei]

PlaceholderBlock(compact) ==
    [tag |-> "DIV",
     cls |-> IF compact THEN {"suumo-unit-price", "suumo-unit-price--compact"}
             ELSE {"suumo-unit-price"},
     text |-> PlaceholderText, kids |-> <<>>,
     ann |-> "na", tsubo |-> 0, heihei |-> 0]

---------------------------------------------------------------------------
(* The result cache and the log of calculator calls *)

CacheKey(price, area) == <<price, area>>

CacheHas(cache, price, area) == \E c \in cache : c.key = CacheKey(price, area)

CacheGet(cache, price, area) == CHOOSE c \in cache : c.key = CacheKey(price, area)

\* the map is emptied before the entry is set
CacheSet_fresh(cache, price, area, tsubo, heihei) ==
    {[key |-> CacheKey(price, area), tsuboPrice |-> tsubo, heiheiPrice |-> heihei]}

\* calculationCache.set(cacheKey, {tsuboPrice, heiheiPrice})
CacheSet(cache, price, area, tsubo, heihei) ==
    {c \in cache : c.key # CacheKey(price, area)}
      \cup {[key |-> CacheKey(price, area), tsuboPrice |-> tsubo, heiheiPrice |-> heihei]}

\* the unit prices of a computable pair: from the cache, or computed and cached.
\* st.log records every run of the two calculators.
WithUnitPrices(st, price, area) ==
    IF CacheHas(st.cache, price, area)
    THEN [st EXCEPT !.tsubo = CacheGet(st.cache, price, area).tsuboPrice,
                    !.heihei = CacheGet(st.cache, price, area).heiheiPrice]
    ELSE LET tsuboPrice == calculateTsuboPrice(price, area)
             heiheiPrice == calculateHeiheiPrice(price, area)
         IN  [st EXCEPT !.tsubo = tsuboPrice, !.heihei = heiheiPrice,
                        !.cache = CacheSet(st.cache, price, area, tsuboPrice, heiheiPrice),
                        !.log = Append(st.log, CacheKey(price, area))]

\* the amount is not tested
Computable_area(price, area) == Truthy(area) /\ Positive(area)

\* price && area && price > 0 && area > 0
Computable(price, area) ==
    Truthy(price) /\ Truthy(area) /\ Positive(price) /\ Positive(area)

---------------------------------------------------------------------------
(* DOM writes of the extension.  The observer, once registered, is handed a
   record for each, with the nodes the write added: a removal adds none. *)

Added(nodeType, cls) == [nodeType |-> nodeType, cls |-> cls]

Record(st, added) ==
    IF st.observing THEN [st EXCEPT !.muts = Append(st.muts, added)] ELSE st

Remove(st, n) ==
    IF n = NoNode THEN st ELSE Record([st EXCEPT !.dom = RemoveNode(st.dom, n)], <<>>)

InsertBlockAfter(st, ref, block) ==
    Record([st EXCEPT !.dom = InsertAfter(st.dom, ref, NewNode(st.dom), block)],
           <<Added(1, block.cls)>>)

\* appending to a node that has left the document changes nothing in it
AppendBlock(st, p, block) ==
    IF p \in Attached(st.dom)
    THEN Record([st EXCEPT !.dom = AppendChild(st.dom, p, NewNode(st.dom), block)],
                <<Added(1, block.cls)>>)
    ELSE st

---------------------------------------------------------------------------
(* processProperty *)

priceSelectors(site) ==
    CASE site = "REHOUSE" -> <<Cls("price-text"), ClsHas("price")>>
      [] site = "ATHOME" -> <<Cls("property-price"), ClsHas("price")>>
      [] site = "HOMES" -> <<TagCls("TD", "price"), ClsHas("price")>>
      [] OTHER -> <<Cls("dottable-value"), Cls2("mt7", "b"),
                    Cls("dkr-cassetteitem_price--num"), Cls("cassette_price--num"),
                    Cls("property_view_note-emphasis"),
                    Cls("detailbox_property_price_txt"), ClsHas("price")>>

areaSelectors(site) ==
    CASE site = "REHOUSE" -> <<Cls("paragraph-body"), ClsHas("area")>>
      [] site = "ATHOME" -> <<Cls("property-detail-table__block"), ClsHas("area")>>
      [] site = "HOMES" -> <<TagCls("TD", "space"), ClsHas("area")>>
      [] OTHER -> <<Cls("dkr-cassetteitem_detail_text--area"),
                    Cls("cassette_detail_text--area"), ClsHas("area")>>

RECURSIVE FirstBySelectors_nobreak(_, _, _)
\* the loop without its break: the last selector that matches wins
FirstBySelectors_nobreak(d, element, sels) ==
    IF sels = <<>> THEN NoNode
    ELSE IF FirstBySelectors_nobreak(d, element, Tail(sels)) # NoNode
    THEN FirstBySelectors_nobreak(d, element, Tail(sels))
    ELSE querySelector(d, element, Head(sels))

RECURSIVE FirstBySelectors(_, _, _)
\* for (const selector of selectors) { e = element.querySelector(selector); if (e) break; }
FirstBySelectors(d, element, sels) ==
    IF sels = <<>> THEN NoNode
    ELSE IF querySelector(d, element, Head(sels)) # NoNode
    THEN querySelector(d, element, Head(sels))
    ELSE FirstBySelectors(d, element, Tail(sels))

RECURSIVE LabelledCell(_, _, _)
\* the TD that directly follows the first TH holding the label and followed by a TD
LabelledCell(d, ths, label) ==
    IF ths = <<>> THEN NoNode
    ELSE LET td == NextElementSibling(d, Head(ths))
         IN  IF /\ Includes(textContent(d, Head(ths)), label)
                /\ td # NoNode
                /\ d[td].tag = "TD"
             THEN td
             ELSE LabelledCell(d, Tail(ths), label)

\* the table-row rule for the price
RowPrice(d, element, site) ==
    LET verticalTable == querySelector(d, element, Cls("verticalTable"))
        th == querySelector(d, element, Tag("TH"))
        td == querySelector(d, element, Tag("TD"))
    IN  IF verticalTable # NoNode /\ site = "HOMES"
        THEN LabelledCell(d, querySelectorAll(d, verticalTable, Tag("TH")), "PRICE")
        ELSE IF th # NoNode /\ Includes(textContent(d, th), "PRICE") /\ td # NoNode
        THEN td
        ELSE NoNode

findPriceElement(d, element, site) ==
    LET bySelector == FirstBySelectors(d, element, priceSelectors(site))
    IN  IF bySelector = NoNode /\ d[element].tag = "TR"
        THEN RowPrice(d, element, site)
        ELSE bySelector

HasUnitText(t) == Includes(t, "sqm") \/ Includes(t, "m")

RECURSIVE BlockSpan(_, _)
\* the first unit-bearing span of the first labelled block that has one
BlockSpan(d, blocks) ==
    IF blocks = <<>> THEN NoNode
    ELSE LET spans == SelectSeq(querySelectorAll(d, Head(blocks), Tag("SPAN")),
                                LAMBDA x : HasUnitText(textContent(d, x)))
         IN  IF Includes(textContent(d, Head(blocks)), "LABEL") /\ spans # <<>>
             THEN Head(spans)
             ELSE BlockSpan(d, Tail(blocks))

AreaBySelector(d, element, site, sel) ==
    IF site = "REHOUSE" /\ sel = Cls("paragraph-body")
    THEN First(SelectSeq(querySelectorAll(d, element, sel),
                         LAMBDA x : HasUnitText(textContent(d, x))))
    ELSE IF site = "ATHOME" /\ sel = Cls("property-detail-table__block")
    THEN BlockSpan(d, querySelectorAll(d, element, sel))
    ELSE querySelector(d, element, sel)

RECURSIVE AreaBySelectors(_, _, _, _)
AreaBySelectors(d, element, site, sels) ==
    IF sels = <<>> THEN NoNode
    ELSE IF AreaBySelector(d, element, site, Head(sels)) # NoNode
    THEN AreaBySelector(d, element, site, Head(sels))
    ELSE AreaBySelectors(d, element, site, Tail(sels))

RECURSIVE DtRule(_, _, _)
\* for (const dt of dts) if (dt has the label) { areaElement = dt.nextElementSibling;
\*   if (areaElement && areaElement.tagName === 'DD') break; }
DtRule(d, dts, areaElement) ==
    IF dts = <<>> THEN areaElement
    ELSE IF Includes(textContent(d, Head(dts)), "LABEL")
    THEN LET next == NextElementSibling(d, Head(dts))
         IN  IF next # NoNode /\ d[next].tag = "DD" THEN next
             ELSE DtRule(d, Tail(dts), next)
    ELSE DtRule(d, Tail(dts), areaElement)

\* the span whose text holds the label, a unit and an extractable positive number
SpanRule(d, element) ==
    First(SelectSeq(querySelectorAll(d, element, Tag("SPAN")),
        LAMBDA x : /\ Includes(textContent(d, x), "LABEL")
                   /\ HasUnitText(textContent(d, x))
                   /\ Truthy(extractNumber(textContent(d, x)))
                   /\ Positive(extractNumber(textContent(d, x)))))

\* the table-row rule for the area
RowArea(d, element, site) ==
    LET verticalTable == querySelector(d, element, Cls("verticalTable"))
        table == Closest(d, element, "TABLE")
        rows == IF table = NoNode THEN <<>>
                ELSE SelectSeq(querySelectorAll(d, table, Tag("TR")),
                        LAMBDA r : /\ querySelector(d, r, Tag("TH")) # NoNode
                                   /\ Includes(textContent(d, querySelector(d, r, Tag("TH"))), "LABEL")
                                   /\ querySelector(d, r, Tag("TD")) # NoNode)
    IN  IF verticalTable # NoNode /\ site = "HOMES"
        THEN LabelledCell(d, querySelectorAll(d, verticalTable, Tag("TH")), "LABEL")
        ELSE IF rows # <<>> THEN querySelector(d, Head(rows), Tag("TD"))
        ELSE NoNode

findAreaElement(d, element, site) ==
    LET bySelector == AreaBySelectors(d, element, site, areaSelectors(site))
        byDt == IF bySelector # NoNode THEN bySelector
                ELSE DtRule(d, querySelectorAll(d, element, Tag("DT")), NoNode)
        bySpan == IF byDt # NoNode THEN byDt ELSE SpanRule(d, element)
    IN  IF bySpan = NoNode /\ d[element].tag = "TR"
        THEN RowArea(d, element, site)
        ELSE bySpan

ElementText(d, n) == IF n = NoNode THEN NullText ELSE textContent(d, n)

\* a slip: values are shown where the placeholder belongs
Rendered_values(st, price, area, compact) ==
    IF Computable(price, area)
    THEN LET st1 == WithUnitPrices(st, price, area)
         IN  [st1 EXCEPT !.block = MetricsBlock(compact, st1.tsubo, st1.heihei)]
    ELSE [st EXCEPT !.block = MetricsBlock(compact, 0, 0)]

\* the annotation block of lines 905-950, with the cache and the log updated
Rendered(st, price, area, compact) ==
    IF Computable(price, area)
    THEN LET st1 == WithUnitPrices(st, price, area)
         IN  [st1 EXCEPT !.block = MetricsBlock(compact, st1.tsubo, st1.heihei)]
    ELSE [st EXCEPT !.block = PlaceholderBlock(compact)]

\* existing = n?.querySelector('.suumo-unit-price'); if (existing) existing.remove()
RemoveExisting(st, n) == Remove(st, querySelector(st.dom, n, Annotation))

\* lines 952-960: the block in the parent of the price element goes, then the
\* one in the price element
Cleared(st, priceElement) ==
    RemoveExisting(RemoveExisting(st, Parent(st.dom, priceElement)), priceElement)

\* processedElements.add(element)
Marked(st, element) == [st EXCEPT !.processed = @ \cup {element}]

\* the element is marked although the price element has no parent
Inserted_marked(st, element, priceElement, isInTable) ==
    IF isInTable
    THEN Marked(AppendBlock(st, priceElement, st.block), element)
    ELSE IF Parent(st.dom, priceElement) # NoNode
    THEN Marked(InsertBlockAfter(st, priceElement, st.block), element)
    ELSE Marked(st, element)

\* lines 962-983: the block is put in place and the element marked
Inserted(st, element, priceElement, isInTable) ==
    IF isInTable
    THEN Marked(AppendBlock(st, priceElement, st.block), element)
    ELSE IF Parent(st.dom, priceElement) # NoNode
    THEN Marked(InsertBlockAfter(st, priceElement, st.block), element)
    ELSE st

\* lines 892-984: the element's price element is known
Annotated(st, element, priceElement, areaElement) ==
    Inserted(
        Cleared(Rendered(st, extractNumber(textContent(st.dom, priceElement)),
                         extractNumber(ElementText(st.dom, areaElement)),
                         HasClosest(st.dom, priceElement, "TABLE")),
                priceElement),
        element, priceElement, HasClosest(st.dom, priceElement, "TABLE"))

\* lines 693-890: the price element decides whether the element is annotated
\* the abort at the price lookup marks the element
Located_marked(st, element, site, priceElement) ==
    IF priceElement = NoNode THEN Marked(st, element)
    ELSE Annotated(st, element, priceElement, findAreaElement(st.dom, element, site))

Located(st, element, site, priceElement) ==
    IF priceElement = NoNode THEN st
    ELSE Annotated(st, element, priceElement, findAreaElement(st.dom, element, site))

processProperty(st, element, site) ==
    IF element \in st.processed THEN st
    ELSE IF element = st.faulty THEN [st EXCEPT !.raised = TRUE]
    ELSE Located(st, element, site, findPriceElement(st.dom, element, site))

---------------------------------------------------------------------------
(* processAllProperties *)

Last(q) == IF q = <<>> THEN NoNode ELSE q[Len(q)]

\* the card roots of the page
propertyCards(d, site) ==
    CASE site = "REHOUSE" -> querySelectorAll(d, Body, Cls("property-index-card"))
      [] site = "ATHOME" -> querySelectorAll(d, Body, Cls("card-box-inner__detail"))
      [] site = "HOMES" ->
           SelectSeq(querySelectorAll(d, Body, Under("bukkenSpec", "TABLE")),
                     LAMBDA t : /\ querySelector(d, t, TagCls("TD", "price")) # NoNode
                                /\ querySelector(d, t, TagCls("TD", "space")) # NoNode)
             \o querySelectorAll(d, Body, Under2("unitSummary", "TBODY", "TR"))
      [] OTHER -> querySelectorAllAny(d, Body,
                     <<Cls("cassetteitem"), Cls("dottable--cassette"), ClsHas("cassette")>>)

RECURSIVE ProcessCards(_, _, _)
\* propertyCards.forEach(card => processProperty(card)): an exception of a
\* call leaves the loop
ProcessCards(st, cards, site) ==
    IF cards = <<>> \/ st.raised THEN st
    ELSE ProcessCards(processProperty(st, Head(cards), site), Tail(cards), site)

\* row.querySelector('th') holds the label
RowHasLabel(d, row, label) ==
    /\ querySelector(d, row, Tag("TH")) # NoNode
    /\ Includes(textContent(d, querySelector(d, row, Tag("TH"))), label)

\* found: the price and area elements were both there, so the texts were read
NoDetail == [price |-> Null, area |-> Null, priceElement |-> NoNode, found |-> FALSE]

Detail(d, priceElement, areaElement) ==
    IF priceElement # NoNode /\ areaElement # NoNode
    THEN [price |-> extractNumber(textContent(d, priceElement)),
          area |-> extractNumber(textContent(d, areaElement)),
          priceElement |-> priceElement, found |-> TRUE]
    ELSE [NoDetail EXCEPT !.priceElement = priceElement]

\* the price and area cells of an outline table, NoDetail unless both are found
OutlineDetail(d, priceRow, areaRow) ==
    IF /\ priceRow # NoNode
       /\ areaRow # NoNode
       /\ querySelector(d, priceRow, Tag("TD")) # NoNode
       /\ querySelector(d, areaRow, Tag("TD")) # NoNode
    THEN [Detail(d, querySelector(d, priceRow, Tag("TD")), querySelector(d, areaRow, Tag("TD")))
            EXCEPT !.priceElement = NoNode]
    ELSE NoDetail

\* the last row of each kind in the rows of a table
RowsDetail(d, rows) ==
    OutlineDetail(d, Last(SelectSeq(rows, LAMBDA r : RowHasLabel(d, r, "PRICE"))),
                  Last(SelectSeq(rows, LAMBDA r : RowHasLabel(d, r, "LABEL"))))

\* if (priceTd && areaTd) { ...; break; }
FirstDetail(detail, rest) == IF detail.found THEN detail ELSE rest

RECURSIVE SuumoDetail(_, _)
\* the first table with a price row and an area row that both hold a td
SuumoDetail(d, tables) ==
    IF tables = <<>> THEN NoDetail
    ELSE FirstDetail(RowsDetail(d, querySelectorAll(d, Head(tables), Tag("TR"))),
                     SuumoDetail(d, Tail(tables)))

\* th.textContent.trim()
Trim(t) == SelectSeq(t, LAMBDA c : c # "sp")

\* th && th.textContent.trim() === LABEL && td, for a row of a table
IsAreaRow(d, r) ==
    /\ HasClosest(d, r, "TABLE")
    /\ querySelector(d, r, Tag("TH")) # NoNode
    /\ Trim(textContent(d, querySelector(d, r, Tag("TH")))) = <<"LABEL">>
    /\ querySelector(d, r, Tag("TD")) # NoNode

\* the td of the first row whose th is exactly the area label
AthomeAreaCell(d) ==
    querySelector(d, First(SelectSeq(querySelectorAll(d, Body, Tag("TR")),
                                     LAMBDA r : IsAreaRow(d, r))),
                  Tag("TD"))

\* a || b for elements
OrElse(a, b) == IF a # NoNode THEN a ELSE b

\* price and area of a detail page
detailValues(d, site) ==
    CASE site = "REHOUSE" ->
           Detail(d,
                  OrElse(querySelector(d, Body, Cls2("text-price-regular", "price-size")),
                         querySelector(d, Body, Cls("building-price-info"))),
                  querySelector(d, Body, Cls("building-info")))
      [] site = "HOMES" ->
           Detail(d, querySelector(d, Body, Attr("data-component=price")),
                  querySelector(d, Body, Attr("data-component=occupiedArea")))
      [] site = "ATHOME" ->
           Detail(d, querySelector(d, Body, Cls("price-main")), AthomeAreaCell(d))
      [] OTHER -> SuumoDetail(d, querySelectorAll(d, Body, Tag("TABLE")))

\* the block under a price element of a detail page
DetailBlockAfter(st, priceElement) ==
    InsertBlockAfter(RemoveExisting(st, Parent(st.dom, priceElement)),
                     priceElement, MetricsBlock(FALSE, st.tsubo, st.heihei))

\* td.appendChild of a compact block, the block the td held removed
CellBlock(st, td) ==
    AppendBlock(RemoveExisting(st, td), td, MetricsBlock(TRUE, st.tsubo, st.heihei))

RECURSIVE RowBlocks(_, _)
\* rows.forEach: a compact block in the td of every price row
RowBlocks(st, rows) ==
    IF rows = <<>> THEN st
    ELSE IF /\ RowHasLabel(st.dom, Head(rows), "PRICE")
            /\ querySelector(st.dom, Head(rows), Tag("TD")) # NoNode
    THEN RowBlocks(CellBlock(st, querySelector(st.dom, Head(rows), Tag("TD"))), Tail(rows))
    ELSE RowBlocks(st, Tail(rows))

RECURSIVE TableBlocks(_, _)
\* tables.forEach
TableBlocks(st, tables) ==
    IF tables = <<>> THEN st
    ELSE TableBlocks(RowBlocks(st, querySelectorAll(st.dom, Head(tables), Tag("TR"))),
                     Tail(tables))

\* lines 1133-1219: the block under the price shown on top
TopBlock(st, site, priceElement) ==
    IF priceElement # NoNode /\ (site # "SUUMO" \/ Parent(st.dom, priceElement) # NoNode)
    THEN DetailBlockAfter(st, priceElement)
    ELSE st

\* lines 1221-1247: the blocks in the price rows, on SUUMO
OutlineBlocks(st, site) ==
    IF site = "SUUMO" THEN TableBlocks(st, querySelectorAll(st.dom, Body, Tag("TABLE")))
    ELSE st

\* lines 1115-1250
DetailRendered(st, site, detail) ==
    IF Computable(detail.price, detail.area)
    THEN OutlineBlocks(
            TopBlock(WithUnitPrices(st, detail.price, detail.area), site,
                     IF site = "SUUMO" THEN querySelector(st.dom, Body, Cls2("mt7", "b"))
                     ELSE detail.priceElement),
            site)
    ELSE st

\* the detail-page branch of processAllProperties
detailPass(st, site) == DetailRendered(st, site, detailValues(st.dom, site))

\* lines 1014-1019
Dispatched(st, site, cards) ==
    IF Len(cards) = 0 THEN detailPass(st, site) ELSE ProcessCards(st, cards, site)

processAllProperties(st, site) ==
    Dispatched([st EXCEPT !.passes = @ + 1], site, propertyCards(st.dom, site))

---------------------------------------------------------------------------
(* collectPropertyData: the record of a card.  Of the fields of a record the
   model keeps price, area, the two unit prices, url and layout. *)

\* the initial value '' of a numeric field
Empty == [k |-> "empty", n |-> 0, e |-> 0]

exportPriceSelectors(site) ==
    CASE site = "REHOUSE" -> <<Cls("price-text")>>
      [] site = "ATHOME" -> <<Cls("property-price")>>
      [] site = "HOMES" -> <<TagCls("TD", "price")>>
      [] OTHER -> <<Cls("dottable-value"), Cls("dkr-cassetteitem_price--num"),
                    Cls("cassette_price--num")>>

\* th.nextElementSibling of the first th of the vertical table that holds the label
VerticalCell(d, card, label) ==
    LET verticalTable == querySelector(d, card, Cls("verticalTable"))
        ths == IF verticalTable = NoNode THEN <<>>
               ELSE SelectSeq(querySelectorAll(d, verticalTable, Tag("TH")),
                              LAMBDA th : Includes(textContent(d, th), label))
    IN  IF ths = <<>> THEN NoNode ELSE NextElementSibling(d, Head(ths))

exportPriceElement(d, card, site) ==
    LET bySelector == FirstBySelectors(d, card, exportPriceSelectors(site))
    IN  IF bySelector = NoNode /\ site = "HOMES" /\ d[card].tag = "TR"
        THEN VerticalCell(d, card, "PRICE")
        ELSE bySelector

exportAreaElement(d, card, site) ==
    CASE site = "REHOUSE" ->
           First(SelectSeq(querySelectorAll(d, card, Cls("paragraph-body")),
                           LAMBDA x : HasUnitText(textContent(d, x))))
      [] site = "ATHOME" ->
           BlockSpan(d, querySelectorAll(d, card, Cls("property-detail-table__block")))
      [] site = "HOMES" ->
           IF querySelector(d, card, TagCls("TD", "space")) = NoNode /\ d[card].tag = "TR"
           THEN VerticalCell(d, card, "LABEL")
           ELSE querySelector(d, card, TagCls("TD", "space"))
      [] OTHER ->
           LET dts == SelectSeq(querySelectorAll(d, card, Tag("DT")),
                                LAMBDA dt : Includes(textContent(d, dt), "LABEL"))
           IN  IF dts = <<>> THEN NoNode ELSE NextElementSibling(d, Head(dts))

\* getAttribute('href'), "" when the link has none
Href(d, n) ==
    IF d[n].cls \cap HrefsWith("") = {} THEN ""
    ELSE CHOOSE h \in d[n].cls \cap HrefsWith("") : TRUE

RECURSIVE ClosestClass(_, _, _)
\* closest('.c1, .c2')
ClosestClass(d, n, classes) ==
    IF n = NoNode THEN NoNode
    ELSE IF d[n].cls \cap classes # {} THEN n
    ELSE ClosestClass(d, Parent(d, n), classes)

\* what new URL(href, window.location.origin) throws
TypeError == "TypeError"

\* href.startsWith('http') ? href : new URL(href, origin).href : no href of the
\* model starts with http; an href stands for the absolute URL made from it,
\* and "//", a URL without a host, makes the constructor throw
AbsoluteUrl(href) == IF href = "href=//" THEN TypeError ELSE href

RECURSIVE FallbackUrl(_, _, _)
\* the first selector whose first link has an href without '#'
\* (no href of the model holds 'javascript:')
FallbackUrl(d, card, sels) ==
    IF sels = <<>> THEN ""
    ELSE LET linkElement == querySelector(d, card, Head(sels))
             href == IF linkElement = NoNode THEN "" ELSE Href(d, linkElement)
         IN  IF href # "" /\ href \notin HrefsWith("#") THEN AbsoluteUrl(href)
             ELSE FallbackUrl(d, card, Tail(sels))

\* the url of a record, or TypeError
exportUrl(d, card, site) ==
    IF site = "SUUMO"
    THEN LET parentDiv == ClosestClass(d, card, {"property_unit-body", "ui-media"})
             links == IF parentDiv = NoNode THEN <<>>
                      ELSE querySelectorAllAny(d, parentDiv,
                                               <<LinkHas("/ms/"), LinkHas("/chuko/")>>)
         IN  IF links # <<>> THEN AbsoluteUrl(Href(d, Head(links)))
             ELSE FallbackUrl(d, card, <<Under("cassetteitem_content-title", "A"),
                                         LinkHas("/chuko/"), LinkHas("/ms/")>>)
    ELSE LET linkElement == querySelector(d, card, Link)
         IN  IF linkElement = NoNode \/ Href(d, linkElement) = "" THEN ""
             ELSE AbsoluteUrl(Href(d, linkElement))

\* /(\d+[SLDK]+)/ : the token "LDK" is a run of the letters S, L, D, K
LayoutMatch(t) ==
    Leftmost({m \in Spans(t) :
        /\ t[m[2]] = "LDK"
        /\ \E j \in m[1]..(m[2] - 1) :
              AllDigits(t, m[1], j) /\ \A k \in (j + 1)..m[2] : t[k] = "LDK"})

exportLayout(d, card) ==
    LET allText == textContent(d, card)
    IN  IF LayoutMatch(allText) # NoMatch THEN Capture(allText, LayoutMatch(allText))
        ELSE <<>>

\* the number in an element's text, '' without the element
NumberIn(d, n) == IF n # NoNode THEN extractNumber(textContent(d, n)) ELSE Empty

\* lines 1665-1669: the unit prices are computed when price and area are truthy
WithPrices(price, area, url, layout) ==
    [price |-> price, area |-> area, computed |-> Truthy(price) /\ Truthy(area),
     tsuboPrice |-> IF Truthy(price) /\ Truthy(area)
                    THEN calculateTsuboPrice(price, area) ELSE 0,
     heiheiPrice |-> IF Truthy(price) /\ Truthy(area)
                     THEN calculateHeiheiPrice(price, area) ELSE 0,
     url |-> url, layout |-> layout]

\* the record collectPropertyData builds for a card; its url is TypeError when
\* the try block was left at the url
propertyData(d, card, site) ==
    WithPrices(NumberIn(d, exportPriceElement(d, card, site)),
               NumberIn(d, exportAreaElement(d, card, site)),
               exportUrl(d, card, site), exportLayout(d, card))

\* what the try block builds for each card, in document order
collectAttempts(d, site) ==
    LET cards == propertyCards(d, site)
    IN  [i \in DOMAIN cards |-> propertyData(d, cards[i], site)]

\* properties.push(propertyData): the catch drops the record of a card whose
\* try block threw
Pushed(attempts) == SelectSeq(attempts, LAMBDA r : r.url # TypeError)

\* the records of the cards
collectRecords(d, site) == Pushed(collectAttempts(d, site))

\* the pairs the calculators are run on while the records are built
collectCalls(records) ==
    LET computed == SelectSeq(records, LAMBDA r : r.computed)
    IN  [i \in 1..Len(computed) |-> CacheKey(computed[i].price, computed[i].area)]

---------------------------------------------------------------------------
(* The page: site, observer, export control *)

\* hostname.includes(sub): sub occurs in host as a run of its parts
HostIncludes(host, sub) ==
    \E i \in 0..(Len(host) - Len(sub)) : SubSeq(host, i + 1, i + Len(sub)) = sub

\* the site is taken when the whole hostname is a known host string
SITE_TYPE_exact(host) ==
    IF host = <<"rehouse.co.jp">> THEN "REHOUSE"
    ELSE IF host = <<"athome.co.jp">> THEN "ATHOME"
    ELSE IF host = <<"homes.co.jp">> THEN "HOMES"
    ELSE "SUUMO"

SITE_TYPE(host) ==
    IF HostIncludes(host, <<"rehouse.co.jp">>) THEN "REHOUSE"
    ELSE IF HostIncludes(host, <<"athome.co.jp">>) THEN "ATHOME"
    ELSE IF HostIncludes(host, <<"homes.co.jp">>) THEN "HOMES"
    ELSE "SUUMO"

site == SITE_TYPE(hostname)

\* the module state, as the operators of the display path take it
St(observing) ==
    [dom |-> dom, processed |-> processedElements, cache |-> calculationCache,
     log |-> calcLog, muts |-> mutations, observing |-> observing, passes |-> passes,
     faulty |-> faulty, raised |-> FALSE,
     tsubo |-> 0, heihei |-> 0, block |-> Blank]

Commit(st) ==
    /\ dom' = st.dom
    /\ processedElements' = st.processed
    /\ calculationCache' = st.cache
    /\ calcLog' = st.log
    /\ mutations' = st.muts
    /\ passes' = st.passes

ButtonClass == "fudosan-csv-export-button"

createExportButton(st) ==
    LET st1 == Remove(st, querySelector(st.dom, Body, Cls(ButtonClass)))
    IN  Record([st1 EXCEPT !.dom = AppendChild(st1.dom, Body, NewNode(st1.dom),
                                               El("BUTTON", {ButtonClass}, <<"x">>, <<>>))],
               <<Added(1, {ButtonClass})>>)

\* button.innerHTML = '...': the label, a text node, is replaced
SetLabel(st) == Record(st, <<Added(3, {})>>)

\* the test passes every added node, the extension's own blocks included
shouldProcess_unfiltered(records) ==
    \E i \in 1..Len(records) : Len(records[i]) > 0

\* the observer callback's test of a batch of records
shouldProcess(records) ==
    \E i \in 1..Len(records) : \E j \in 1..Len(records[i]) :
        records[i][j].nodeType = 1 /\ "suumo-unit-price" \notin records[i][j].cls

\* downloadCSV: a link is appended to the body and removed again
downloadCSV(st) == Record(Record(st, <<Added(1, {})>>), <<>>)

LongPauseEvery == 5

\* what a fetch of a detail page returns: {} on failure, else the fields found
NoInfo == [ok |-> FALSE, layout |-> <<>>]
DetailInfos == {NoInfo} \cup {[ok |-> TRUE, layout |-> l] : l \in {<<>>, <<"2", "LDK">>}}

\* a failed fetch hands back the empty defaults of detailInfo
Merged_defaults(property, detailInfo) == [property EXCEPT !.layout = detailInfo.layout]

\* Object.assign(property, detailInfo)
Merged(property, detailInfo) ==
    IF detailInfo.ok THEN [property EXCEPT !.layout = detailInfo.layout] ELSE property

RECURSIVE DetailLoop(_, _, _)
\* the loop over the records from record i up to its next fetch; at = 0 when it ends
DetailLoop(st, props, i) ==
    IF i > Len(props) THEN [st |-> st, at |-> 0]
    ELSE IF props[i].url # "" THEN [st |-> SetLabel(st), at |-> i]
    ELSE DetailLoop(SetLabel(st), props, i + 1)

---------------------------------------------------------------------------
(* Inputs of the pure functions *)

Alphabet == {"0", "1", ".", ",", "oku", "man", "m", "sqm", "LABEL", "sp", "x"}

BoundedTexts == UNION {[1..n -> Alphabet] : n \in 0..MaxLen}

\* the texts the documentation of the extractor names
ExampleTexts ==
    { <<"2", "oku", "5", "9", "9", "0", "man", "yen">>,
      <<"1", "oku", "2", "9", "0", "0", "man", "yen">>,
      <<"1", "2", ",", "9", "0", "0", "man", "yen">>,
      <<"1", ",", "2", "3", "4", ",", "5", "6", "7", "man", "yen">>,
      <<"LABEL", "1", "0", "7", ".", "1", "9", "m", "2">>,
      <<"1", "0", "7", ".", "1", "9", "m", "2">>,
      <<"1", "3", "5", ".", "2", "4", "sqm">>,
      <<"1", "2", ",", "9", "0", "0", "man", "yen", "sp", "7", "0", "sqm">> }

TextInputs == BoundedTexts \cup ExampleTexts \cup {NullText}

GeneratedPairs ==
    {<<Num(a, 0), Num(t, 1)>> : a \in 1..MaxAmount, t \in 1..MaxAreaTenths}

ExamplePairs == {<<Num(25990, 0), Num(70, 0)>>}

CalcInputs == GeneratedPairs \cup ExamplePairs

---------------------------------------------------------------------------
(* Pages.  A page is a host name, a document and the content the host adds
   later, each addition a pair <<parent, root>>.  Every layout is built for
   each price text and each area text; with NullText the area element is
   left out. *)

PriceTexts ==
    { <<"1", "0", "0", "man", "yen">>, <<"1", "oku", "yen">>,
      <<"0", "man", "yen">>, <<"x">> }

AreaTexts == { <<"4", "0", "sqm">>, <<"0", "m">>, <<".", "sqm">>, <<"x">> }

AreaOptions == AreaTexts \cup {NullText}

Doc(nodes) == [x \in 0..MaxNode |-> IF x < Len(nodes) THEN nodes[x + 1] ELSE Blank]

Page(host, nodes, later) == [hostname |-> host, dom |-> Doc(nodes), deferred |-> later]

Given(a, kids) == IF a = NullText THEN <<>> ELSE kids

\* SUUMO, list of units: price in a span, area in a dd; a second unit arrives later
SuumoListing(p, a) ==
    Page(<<"suumo.jp">>,
         << El("BODY", {}, <<>>, <<1>>),
            El("DIV", {"property_unit-body"}, <<>>, <<2, 3>>),
            El("A", {"href=/chuko/1"}, <<"x">>, <<>>),
            El("DIV", {"dottable--cassette"}, <<>>, <<4, 5>> \o Given(a, <<6, 7>>)),
            El("SPAN", {"dottable-value"}, p, <<>>),
            El("SPAN", {}, <<"3", "LDK">>, <<>>),
            El("DT", {}, <<"LABEL">>, <<>>),
            El("DD", {}, a, <<>>),
            El("DIV", {"dottable--cassette"}, <<>>, <<9>> \o Given(a, <<10, 11>>)),
            El("SPAN", {"dottable-value"}, p, <<>>),
            El("DT", {}, <<"LABEL">>, <<>>),
            El("DD", {}, a, <<>>) >>,
         << <<1, 8>> >>)

\* SUUMO, list in a table: the cells carry the cassette class names
SuumoTable(p, a) ==
    Page(<<"suumo.jp">>,
         << El("BODY", {}, <<>>, <<1>>),
            El("TABLE", {"cassetteitem"}, <<>>, <<2>>),
            El("TR", {}, <<>>, <<3>> \o Given(a, <<4>>)),
            El("TD", {"dkr-cassetteitem_price--num"}, p, <<>>),
            El("TD", {"dkr-cassetteitem_detail_text--area"}, a, <<>>) >>,
         <<>>)

\* SUUMO, page of one property: price on top and in the outline table;
\* the host adds an unrelated element later
SuumoDetailPage(p, a) ==
    Page(<<"suumo.jp">>,
         << El("BODY", {}, <<>>, <<1, 3>>),
            El("DIV", {}, <<>>, <<2>>),
            El("P", {"mt7", "b"}, p, <<>>),
            El("TABLE", {}, <<>>, <<4>> \o Given(a, <<7>>)),
            El("TR", {}, <<>>, <<5, 6>>),
            El("TH", {}, <<"PRICE">>, <<>>),
            El("TD", {}, p, <<>>),
            El("TR", {}, <<>>, <<8, 9>>),
            El("TH", {}, <<"LABEL">>, <<>>),
            El("TD", {}, a, <<>>),
            El("DIV", {}, <<"x">>, <<>>) >>,
         << <<0, 10>> >>)

\* SUUMO, a unit whose price is not in the document yet: the host adds it later
\* SUUMO, a list whose second card, of another price and area, comes with a
\* later load
SuumoTwoPrices(p, a) ==
    Page(<<"suumo.jp">>,
         << El("BODY", {}, <<>>, <<1>>),
            El("DIV", {"cassetteitem"}, <<>>, <<2, 3>> \o Given(a, <<4, 5>>)),
            El("A", {"href=/chuko/1"}, <<"x">>, <<>>),
            El("SPAN", {"dottable-value"}, p, <<>>),
            El("DT", {}, <<"LABEL">>, <<>>),
            El("DD", {}, a, <<>>),
            El("DIV", {"cassetteitem"}, <<>>, <<7, 8, 9>>),
            El("SPAN", {"dottable-value"}, <<"2", "oku", "yen">>, <<>>),
            El("DT", {}, <<"LABEL">>, <<>>),
            El("DD", {}, <<"5", "0", "sqm">>, <<>>) >>,
         << <<0, 6>> >>)

\* SUUMO, a card in which the term with the area label is followed by
\* another term, and a span holds the label and the area
SuumoTermPair(p, a) ==
    Page(<<"suumo.jp">>,
         << El("BODY", {}, <<>>, <<1>>),
            El("DIV", {"cassetteitem"}, <<>>, <<2, 3, 4>> \o Given(a, <<5>>)),
            El("SPAN", {"dottable-value"}, p, <<>>),
            El("DT", {}, <<"LABEL">>, <<>>),
            El("DT", {}, <<"x">>, <<>>),
            El("SPAN", {}, <<"LABEL">> \o a, <<>>) >>,
         <<>>)

SuumoLatePrice(p, a) ==
    Page(<<"suumo.jp">>,
         << El("BODY", {}, <<>>, <<1>>),
            El("DIV", {"cassetteitem"}, <<>>, Given(a, <<3, 4>>)),
            El("SPAN", {"dottable-value"}, p, <<>>),
            El("DT", {}, <<"LABEL">>, <<>>),
            El("DD", {}, a, <<>>) >>,
         << <<1, 2>> >>)

\* SUUMO, six units that hold a link only
SuumoLinks ==
    Page(<<"suumo.jp">>,
         << El("BODY", {}, <<>>, <<1, 3, 5, 7, 9, 11>>),
            El("DIV", {"cassetteitem"}, <<>>, <<2>>), El("A", {"href=/chuko/1"}, <<"x">>, <<>>),
            El("DIV", {"cassetteitem"}, <<>>, <<4>>), El("A", {"href=/chuko/2"}, <<"x">>, <<>>),
            El("DIV", {"cassetteitem"}, <<>>, <<6>>), El("A", {"href=/ms/1"}, <<"x">>, <<>>),
            El("DIV", {"cassetteitem"}, <<>>, <<8>>), El("A", {"href=/chuko/1"}, <<"x">>, <<>>),
            El("DIV", {"cassetteitem"}, <<>>, <<10>>), El("A", {"href=/chuko/2"}, <<"x">>, <<>>),
            El("DIV", {"cassetteitem"}, <<>>, <<12>>), El("A", {"href=/chuko/#top"}, <<"x">>, <<>>) >>,
         <<>>)

RehouseListing(p, a) ==
    Page(<<"www.", "rehouse.co.jp">>,
         << El("BODY", {}, <<>>, <<1>>),
            El("DIV", {"property-index-card"}, <<>>, <<2, 3>> \o Given(a, <<4>>)),
            El("A", {"href=/detail/1"}, <<"x">>, <<>>),
            El("SPAN", {"price-text"}, p, <<>>),
            El("P", {"paragraph-body"}, a, <<>>) >>,
         <<>>)

\* Mitsui Rehouse, two cards; the link of the first has no host in its href
RehouseBadLink(p, a) ==
    Page(<<"www.", "rehouse.co.jp">>,
         << El("BODY", {}, <<>>, <<1, 5>>),
            El("DIV", {"property-index-card"}, <<>>, <<2, 3>> \o Given(a, <<4>>)),
            El("A", {"href=//"}, <<"x">>, <<>>),
            El("SPAN", {"price-text"}, p, <<>>),
            El("P", {"paragraph-body"}, a, <<>>),
            El("DIV", {"property-index-card"}, <<>>, <<6, 7>> \o Given(a, <<8>>)),
            El("A", {"href=/detail/1"}, <<"x">>, <<>>),
            El("SPAN", {"price-text"}, p, <<>>),
            El("P", {"paragraph-body"}, a, <<>>) >>,
         <<>>)

\* Mitsui Rehouse, a card that holds, before the elements of the specific
\* selectors, elements that only the generic selectors match
RehouseMixed(p, a) ==
    Page(<<"www.", "rehouse.co.jp">>,
         << El("BODY", {}, <<>>, <<1>>),
            El("DIV", {"property-index-card"}, <<>>, <<2, 3, 4>> \o Given(a, <<5>>)),
            El("SPAN", {"price-size"}, <<"9", "man", "yen">>, <<>>),
            El("SPAN", {"price-text"}, p, <<>>),
            El("SPAN", {"floor-area"}, <<"9", "sqm">>, <<>>),
            El("P", {"paragraph-body"}, a, <<>>) >>,
         <<>>)

\* Mitsui Rehouse, two cards: the host page serves the first with a block of
\* an earlier page view in the place of its price
RehouseStale(p, a) ==
    Page(<<"www.", "rehouse.co.jp">>,
         << El("BODY", {}, <<>>, <<1, 4>>),
            El("DIV", {"property-index-card"}, <<>>, <<2>> \o Given(a, <<3>>)),
            El("DIV", {"suumo-unit-price"}, p, <<>>),
            El("P", {"paragraph-body"}, a, <<>>),
            El("DIV", {"property-index-card"}, <<>>, <<5>> \o Given(a, <<6>>)),
            El("SPAN", {"price-text"}, p, <<>>),
            El("P", {"paragraph-body"}, a, <<>>) >>,
         <<>>)

\* SUUMO, the page of one property: the outline table comes before the price
\* at the top, under the same parent; the host page adds an element later
SuumoDetailTableFirst(p, a) ==
    Page(<<"suumo.jp">>,
         << El("BODY", {}, <<>>, <<1>>),
            El("DIV", {}, <<>>, <<2, 9>>),
            El("TABLE", {}, <<>>, <<3>> \o Given(a, <<6>>)),
            El("TR", {}, <<>>, <<4, 5>>),
            El("TH", {}, <<"PRICE">>, <<>>),
            El("TD", {}, p, <<>>),
            El("TR", {}, <<>>, <<7, 8>>),
            El("TH", {}, <<"LABEL">>, <<>>),
            El("TD", {}, a, <<>>),
            El("P", {"mt7", "b"}, p, <<>>),
            El("DIV", {}, <<"x">>, <<>>) >>,
         << <<0, 10>> >>)

RehouseDetailPage(p, a) ==
    Page(<<"www.", "rehouse.co.jp">>,
         << El("BODY", {}, <<>>, <<1>>),
            El("DIV", {}, <<>>, <<2>> \o Given(a, <<3>>)),
            El("SPAN", {"text-price-regular", "price-size"}, p, <<>>),
            El("DIV", {"building-info"}, a, <<>>) >>,
         <<>>)

AthomeListing(p, a) ==
    Page(<<"www.", "athome.co.jp">>,
         << El("BODY", {}, <<>>, <<1>>),
            El("DIV", {"card-box-inner__detail"}, <<>>, <<2>> \o Given(a, <<3>>)),
            El("SPAN", {"property-price"}, p, <<>>),
            El("DIV", {"property-detail-table__block"}, <<"LABEL">>, <<4>>),
            El("SPAN", {}, a, <<>>) >>,
         <<>>)

AthomeDetailPage(p, a) ==
    Page(<<"www.", "athome.co.jp">>,
         << El("BODY", {}, <<>>, <<1>> \o Given(a, <<2>>)),
            El("SPAN", {"price-main"}, p, <<>>),
            El("TABLE", {}, <<>>, <<3, 6>>),
            El("TR", {}, <<>>, <<4, 5>>),
            El("TH", {}, <<"sp", "LABEL", "sp">>, <<>>),
            El("TD", {}, a, <<>>),
            El("TR", {}, <<>>, <<7, 8>>),
            El("TH", {}, <<"PRICE">>, <<>>),
            El("TD", {}, p, <<>>) >>,
         <<>>)

HomesListing(p, a) ==
    Page(<<"www.", "homes.co.jp">>,
         << El("BODY", {}, <<>>, <<1>>),
            El("DIV", {"bukkenSpec"}, <<>>, <<2>>),
            El("TABLE", {}, <<>>, <<3>>),
            El("TR", {}, <<>>, <<4>> \o Given(a, <<5>>)),
            El("TD", {"price"}, p, <<>>),
            El("TD", {"space"}, a, <<>>) >>,
         <<>>)

\* HOME'S, grouped list: a row of the summary holds a vertical table
HomesGrouped(p, a) ==
    Page(<<"www.", "homes.co.jp">>,
         << El("BODY", {}, <<>>, <<1>>),
            El("DIV", {"unitSummary"}, <<>>, <<2>>),
            El("TABLE", {}, <<>>, <<3>>),
            El("TBODY", {}, <<>>, <<4>>),
            El("TR", {}, <<>>, <<5>>),
            El("TD", {}, <<>>, <<6>>),
            El("TABLE", {"verticalTable"}, <<>>, <<7>>),
            El("TR", {}, <<>>, <<8, 9>> \o Given(a, <<10, 11>>)),
            El("TH", {}, <<"PRICE">>, <<>>),
            El("TD", {}, p, <<>>),
            El("TH", {}, <<"LABEL">>, <<>>),
            El("TD", {}, a, <<>>) >>,
         <<>>)

HomesDetailPage(p, a) ==
    Page(<<"www.", "homes.co.jp">>,
         << El("BODY", {}, <<>>, <<1>>),
            El("DIV", {}, <<>>, <<2>> \o Given(a, <<3>>)),
            El("SPAN", {"data-component=price"}, p, <<>>),
            El("SPAN", {"data-component=occupiedArea"}, a, <<>>) >>,
         <<>>)

\* the parts hostnames are made of: the known host strings, and parts that
\* go before them
HostParts == {"www.", "at", "rehouse.co.jp", "athome.co.jp", "homes.co.jp", "suumo.jp"}

Hostnames == UNION {[1..n -> HostParts] : n \in 1..MaxHost}

\* a page of no content on a host
EmptyPage(host) == Page(host, << El("BODY", {}, <<>>, <<>>) >>, <<>>)

Pages ==
    {SuumoLinks} \cup {EmptyPage(host) : host \in Hostnames} \cup UNION {
        {SuumoListing(p, a), SuumoTable(p, a), SuumoDetailPage(p, a),
         SuumoDetailTableFirst(p, a),
         SuumoLatePrice(p, a), SuumoTwoPrices(p, a), SuumoTermPair(p, a),
         RehouseListing(p, a), RehouseBadLink(p, a), RehouseMixed(p, a), RehouseStale(p, a),
         RehouseDetailPage(p, a),
         AthomeListing(p, a), AthomeDetailPage(p, a),
         HomesListing(p, a), HomesGrouped(p, a), HomesDetailPage(p, a)}
        : <<p, a>> \in PriceTexts \X AreaOptions }

---------------------------------------------------------------------------
(* Specification of the calculators: one call on a chosen pair *)

\* no page is loaded
NoPage ==
    /\ hostname = <<"suumo.jp">>
    /\ dom = Doc(<<El("BODY", {}, <<>>, <<>>)>>)
    /\ deferred = <<>>
    /\ pc = "loading"
    /\ processedElements = {}
    /\ calculationCache = {}
    /\ calcLog = <<>>
    /\ mutations = <<>>
    /\ button = "none"
    /\ exportPhase = "idle"
    /\ properties = <<>>
    /\ exportIndex = 0
    /\ exports = 0
    /\ passes = 0
    /\ faulty = NoNode
    /\ fetchLog = <<>>

\* generateCSV is not called
NoCsv ==
    /\ csvProperties = <<>>
    /\ csvText = <<>>
    /\ csvDone = FALSE

InitCalc ==
    /\ \E p \in CalcInputs :
          cAmount = p[1] /\ cArea = p[2]
    /\ cTsubo = -1
    /\ cHeihei = -1
    /\ exText = <<>>
    /\ exResult = Null
    /\ exDone = FALSE
    /\ NoCsv
    /\ NoPage

Calculate ==
    /\ cTsubo = -1
    /\ cTsubo' = calculateTsuboPrice(cAmount, cArea)
    /\ cHeihei' = calculateHeiheiPrice(cAmount, cArea)
    /\ UNCHANGED <<cAmount, cArea, exVars, csvVars, pageVars>>

NextCalc == Calculate

vars == <<calcVars, exVars, csvVars, pageVars>>

SpecCalc == InitCalc /\ [][NextCalc]_vars

---------------------------------------------------------------------------
(* The CSV text of the records: generateCSV *)

\* Field values and the CSV text are sequences of the characters
\*   ","  the comma,  "q" the double quote,  "nl" the newline,
\*   "x"  any other character;
\* a header name is one token.

\* a null or undefined field value
NullValue == <<"null">>

\* the keys of a record object, in the order of Object.keys
CsvKeys == <<"name", "nameDetail", "address">>

\* headerMap[h] || h
headerMap(h) ==
    CASE h = "name" -> "NAME"
      [] h = "address" -> "ADDRESS"
      [] OTHER -> h

\* value.replace(/"/g, '""')
RECURSIVE QuotesDoubled(_)
QuotesDoubled(value) ==
    IF value = <<>> THEN <<>>
    ELSE (IF Head(value) = "q" THEN <<"q", "q">> ELSE <<Head(value)>>)
           \o QuotesDoubled(Tail(value))

\* the value is enclosed in quotes as it is
csvValue_plain(value) ==
    LET text == IF value = NullValue THEN <<>> ELSE value
    IN  IF \E i \in 1..Len(text) : text[i] \in {",", "nl", "q"}
        THEN <<"q">> \o text \o <<"q">>
        ELSE text

\* lines 1925-1935: one field value as it is emitted
csvValue(value) ==
    LET text == IF value = NullValue THEN <<>> ELSE value
    IN  IF \E i \in 1..Len(text) : text[i] \in {",", "nl", "q"}
        THEN <<"q">> \o QuotesDoubled(text) \o <<"q">>
        ELSE text

\* Array.prototype.join
RECURSIVE Join(_, _)
Join(texts, separator) ==
    IF texts = <<>> THEN <<>>
    ELSE IF Len(texts) = 1 THEN texts[1]
    ELSE texts[1] \o separator \o Join(Tail(texts), separator)

\* Object.keys(properties[0]).filter(key => key !== 'nameDetail')
csvHeaders == SelectSeq(CsvKeys, LAMBDA key : key # "nameDetail")

\* lines 1923-1938: the row of one record
csvRow(property) ==
    Join([k \in 1..Len(csvHeaders) |-> csvValue(property[csvHeaders[k]])], <<",">>)

\* lines 1868-1941
generateCSV(props) ==
    IF Len(props) = 0 THEN <<>>
    ELSE Join(<< Join([k \in 1..Len(csvHeaders) |-> <<headerMap(csvHeaders[k])>>], <<",">>) >>
                \o [i \in 1..Len(props) |-> csvRow(props[i])],
              <<"nl">>)

CsvChars == {"x", ",", "q", "nl"}

\* the field values generated: null, and the texts of up to MaxField characters
FieldValues == {NullValue} \cup UNION {[1..n -> CsvChars] : n \in 0..MaxField}

CsvRecords ==
    {[name |-> n, nameDetail |-> <<"x">>, address |-> a] : n \in FieldValues, a \in FieldValues}

PlainRecord == [name |-> <<"x">>, nameDetail |-> <<>>, address |-> <<"x", "x">>]

\* no record, one record, and a record followed by another
CsvInputs == {<<>>} \cup {<<r>> : r \in CsvRecords} \cup {<<r, PlainRecord>> : r \in CsvRecords}

---------------------------------------------------------------------------
(* Specification of the CSV generator: one call on chosen records *)

InitCSV ==
    /\ csvProperties \in CsvInputs
    /\ csvText = <<>>
    /\ csvDone = FALSE
    /\ cAmount = Num(1, 0)
    /\ cArea = Num(1, 0)
    /\ cTsubo = -1
    /\ cHeihei = -1
    /\ exText = <<>>
    /\ exResult = Null
    /\ exDone = FALSE
    /\ NoPage

Generate ==
    /\ ~csvDone
    /\ csvText' = generateCSV(csvProperties)
    /\ csvDone' = TRUE
    /\ UNCHANGED <<csvProperties, calcVars, exVars, pageVars>>

NextCSV == Generate

SpecCSV == InitCSV /\ [][NextCSV]_vars

---------------------------------------------------------------------------
(* Specification of the extractor: one call on a chosen text *)

InitExtract ==
    /\ exText \in TextInputs
    /\ exResult = Null
    /\ exDone = FALSE
    /\ cAmount = Num(1, 0)
    /\ cArea = Num(1, 0)
    /\ cTsubo = -1
    /\ cHeihei = -1
    /\ NoCsv
    /\ NoPage

Extract ==
    /\ ~exDone
    /\ exResult' = extractNumber(exText)
    /\ exDone' = TRUE
    /\ UNCHANGED <<exText, calcVars, csvVars, pageVars>>

NextExtract == Extract

SpecExtract == InitExtract /\ [][NextExtract]_vars

---------------------------------------------------------------------------
(* Specification of the page: the script in a page view *)

\* the script is loaded into a page
Loaded ==
    /\ \E page \in Pages :
          /\ hostname = page.hostname
          /\ dom = page.dom
          /\ deferred = page.deferred
    /\ pc = "loading"
    /\ processedElements = {}
    /\ calculationCache = {}
    /\ calcLog = <<>>
    /\ mutations = <<>>
    /\ button = "none"
    /\ exportPhase = "idle"
    /\ properties = <<>>
    /\ exportIndex = 0
    /\ exports = 0
    /\ passes = 0
    /\ fetchLog = <<>>
    /\ cAmount = Num(1, 0)
    /\ cArea = Num(1, 0)
    /\ cTsubo = -1
    /\ cHeihei = -1
    /\ exText = <<>>
    /\ exResult = Null
    /\ exDone = FALSE
    /\ NoCsv

\* no call of the script raises
Init == Loaded /\ faulty = NoNode

\* processing one of the cards of the document raises, or none does
InitFault == Loaded /\ faulty \in {NoNode} \cup SeqToSet(propertyCards(dom, site))

exportVars == <<button, exportPhase, properties, exportIndex, exports>>

\* observer.observe(document.body, ...)
Observed(st) == [st EXCEPT !.observing = TRUE]

\* the export control is made on every page
Controlled_always(st, listing) ==
    /\ Commit(createExportButton(st))
    /\ button' = "enabled"

\* lines 2050-2074: the export control is made on a page with cards
Controlled(st, listing) ==
    /\ Commit(IF listing THEN createExportButton(st) ELSE st)
    /\ button' = IF listing THEN "enabled" ELSE "none"

\* lines 2043-2074, the first pass done; an exception of the first pass
\* leaves init() before the observer and the export control are made
Started(st) ==
    IF st.raised
    THEN Commit(st) /\ button' = "none" /\ pc' = "failed"
    ELSE /\ Controlled(Observed(st), Len(propertyCards(st.dom, SITE_TYPE(hostname))) > 0)
         /\ pc' = "ready"

\* init(): the first pass, the observer, the export control
init ==
    /\ pc = "loading"
    /\ Started(processAllProperties(St(FALSE), site))
    /\ UNCHANGED <<hostname, faulty, deferred, exportPhase, properties, exportIndex, exports,
                   fetchLog, calcVars, exVars, csvVars>>

\* the host page attaches content it had not shown yet
HostMutation ==
    /\ mutations = <<>>
    /\ deferred # <<>>
    /\ LET parent == Head(deferred)[1]
           root == Head(deferred)[2]
       IN  /\ dom' = [dom EXCEPT ![parent].kids = Append(@, root)]
           /\ mutations' = IF pc = "ready"
                           THEN Append(mutations, <<Added(1, dom[root].cls)>>)
                           ELSE mutations
    /\ deferred' = Tail(deferred)
    /\ UNCHANGED <<hostname, faulty, pc, processedElements, calculationCache, calcLog,
                   exportVars, passes, fetchLog, calcVars, exVars, csvVars>>

\* the MutationObserver callback, handed every pending record
ObserverCallback ==
    /\ mutations # <<>>
    /\ LET st0 == [St(TRUE) EXCEPT !.muts = <<>>]
       IN  Commit(IF shouldProcess(mutations) THEN processAllProperties(st0, site) ELSE st0)
    /\ UNCHANGED <<hostname, faulty, deferred, pc, exportVars, fetchLog, calcVars, exVars, csvVars>>

\* an entry of the fetch log: "start", "done" or "failed" of the fetch for
\* record i, or "sleep", a pause that is over
Event(ev, i) == [ev |-> ev, i |-> i]

\* the fetches of the records that are left are issued at once
Continue_parallel(st, props, i, log) ==
    LET loop == DetailLoop(st, props, i)
    IN  /\ Commit(loop.st)
        /\ exportIndex' = loop.at
        /\ exportPhase' = IF loop.at > 0 THEN "fetch" ELSE "collected"
        /\ fetchLog' = IF loop.at > 0
                       THEN log \o [j \in 1..(Len(props) - loop.at + 1) |->
                                       Event("start", loop.at + j - 1)]
                       ELSE log

\* the export run goes on from record i: up to the call of fetchDetailPageInfo
\* for the next record with a url, or to the end of the loop
Continue(st, props, i, log) ==
    LET loop == DetailLoop(st, props, i)
    IN  /\ Commit(loop.st)
        /\ exportIndex' = loop.at
        /\ exportPhase' = IF loop.at > 0 THEN "fetch" ELSE "collected"
        /\ fetchLog' = IF loop.at > 0 THEN Append(log, Event("start", loop.at)) ELSE log

\* lines 1814-1856 with the records built
Recorded(st, records) ==
    /\ properties' = records
    /\ IF SITE_TYPE(hostname) = "SUUMO" /\ Len(records) > 0
       THEN Continue(st, records, 1, <<>>)
       ELSE /\ Commit(st)
            /\ fetchLog' = <<>>
            /\ exportIndex' = 0
            /\ exportPhase' = "collected"

\* lines 1992-2002 with the try block run on every card
Collected(st, attempts) ==
    Recorded([st EXCEPT !.log = @ \o collectCalls(attempts)], Pushed(attempts))

\* a click on the export control, up to the first await of collectPropertyData
ExportClick ==
    /\ pc = "ready"
    /\ mutations = <<>>
    /\ button = "enabled"
    /\ exports < MaxExports
    /\ Collected(SetLabel(St(TRUE)), collectAttempts(dom, site))
    /\ button' = "disabled"
    /\ exports' = exports + 1
    /\ UNCHANGED <<hostname, faulty, deferred, pc, calcVars, exVars, csvVars>>

\* fetchDetailPageInfo returns; its fields are merged into the record
FetchDone ==
    /\ exportPhase = "fetch"
    /\ mutations = <<>>
    /\ \E detailInfo \in DetailInfos :
          /\ properties' = [properties EXCEPT ![exportIndex] = Merged(@, detailInfo)]
          /\ fetchLog' = Append(fetchLog, Event(IF detailInfo.ok THEN "done" ELSE "failed",
                                                exportIndex))
    /\ IF exportIndex < Len(properties)
       THEN exportPhase' = "sleep2000" /\ exportIndex' = exportIndex
       ELSE exportPhase' = "collected" /\ exportIndex' = 0
    /\ UNCHANGED <<hostname, faulty, dom, deferred, pc, processedElements, calculationCache,
                   calcLog, mutations, button, exports, passes, calcVars, exVars, csvVars>>

\* sleep(2000) is over
Sleep2000Done ==
    /\ exportPhase = "sleep2000"
    /\ mutations = <<>>
    /\ IF exportIndex % LongPauseEvery = 0
       THEN /\ exportPhase' = "sleep1000"
            /\ fetchLog' = Append(fetchLog, Event("sleep", exportIndex))
            /\ UNCHANGED <<dom, processedElements, calculationCache, calcLog, mutations,
                           exportIndex, passes>>
       ELSE Continue(St(TRUE), properties, exportIndex + 1,
                     Append(fetchLog, Event("sleep", exportIndex)))
    /\ UNCHANGED <<hostname, faulty, deferred, pc, button, properties, exports, calcVars, exVars, csvVars>>

\* sleep(1000) is over
Sleep1000Done ==
    /\ exportPhase = "sleep1000"
    /\ mutations = <<>>
    /\ Continue(St(TRUE), properties, exportIndex + 1,
                Append(fetchLog, Event("sleep", exportIndex)))
    /\ UNCHANGED <<hostname, faulty, deferred, pc, button, properties, exports, calcVars, exVars, csvVars>>

\* collectPropertyData has returned: the file is made, or nothing was found
ExportFinish ==
    /\ exportPhase = "collected"
    /\ mutations = <<>>
    /\ IF Len(properties) = 0
       THEN /\ Commit(SetLabel(St(TRUE)))
            /\ button' = "enabled"
            /\ exportPhase' = "idle"
       ELSE /\ Commit(SetLabel(downloadCSV(SetLabel(St(TRUE)))))
            /\ button' = button
            /\ exportPhase' = "reset"
    /\ UNCHANGED <<hostname, faulty, deferred, pc, properties, exportIndex, exports, fetchLog,
                   calcVars, exVars, csvVars>>

\* the timer fires and leaves the control as it is
ResetTimer_stuck ==
    /\ exportPhase = "reset"
    /\ mutations = <<>>
    /\ Commit(SetLabel(St(TRUE)))
    /\ button' = button
    /\ exportPhase' = "idle"
    /\ UNCHANGED <<hostname, faulty, deferred, pc, properties, exportIndex, exports, fetchLog,
                   calcVars, exVars, csvVars>>

\* the timer set after the download fires
ResetTimer ==
    /\ exportPhase = "reset"
    /\ mutations = <<>>
    /\ Commit(SetLabel(St(TRUE)))
    /\ button' = "enabled"
    /\ exportPhase' = "idle"
    /\ UNCHANGED <<hostname, faulty, deferred, pc, properties, exportIndex, exports, fetchLog,
                   calcVars, exVars, csvVars>>

Next ==
    \/ init
    \/ HostMutation
    \/ ObserverCallback
    \/ ExportClick
    \/ FetchDone
    \/ Sleep2000Done
    \/ Sleep1000Done
    \/ ExportFinish
    \/ ResetTimer

Spec == Init /\ [][Next]_vars

\* the page with a card whose processing may raise
SpecFault == InitFault /\ [][Next]_vars

\* every fetch and every timer of an export run completes, and a callback of
\* the observer runs when records are pending: the weak fairness of the
\* handlers, WF_vars(FetchDone) and so on, written out with the conditions
\* under which the handlers are enabled
Pending(phase) == exportPhase = phase /\ mutations = <<>>

SpecExport ==
    /\ Init
    /\ [][Next]_vars
    /\ ([]<>(mutations = <<>>) \/ []<><<ObserverCallback>>_vars)
    /\ ([]<>(~Pending("fetch")) \/ []<><<FetchDone>>_vars)
    /\ ([]<>(~Pending("sleep2000")) \/ []<><<Sleep2000Done>>_vars)
    /\ ([]<>(~Pending("sleep1000")) \/ []<><<Sleep1000Done>>_vars)
    /\ ([]<>(~Pending("collected")) \/ []<><<ExportFinish>>_vars)
    /\ ([]<>(~Pending("reset")) \/ []<><<ResetTimer>>_vars)

---------------------------------------------------------------------------
(* The legacy script, src/content.js *)

\* extractNumber of the legacy script: the commas go, the first run of
\* digits and dots is parsed
legacyExtractNumber(text) ==
    IF text = NullText \/ text = <<>> THEN Null
    ELSE IF RunMatch(StripCommas(text)) # NoMatch
    THEN parseFloat(Capture(StripCommas(text), RunMatch(StripCommas(text))))
    ELSE Null

legacyPriceSelectors ==
    <<Cls("dkr-cassetteitem_price--num"), Cls("cassette_price--num"),
      Cls("property_view_note-emphasis"), Cls("detailbox_property_price_txt"),
      ClsHas("price")>>

legacyAreaSelectors ==
    <<Cls("dkr-cassetteitem_detail_text--area"), Cls("cassette_detail_text--area"),
      ClsHas("area")>>

\* the block of the legacy script: the metrics with their units, or the
\* placeholder
legacyMetricsBlock(tsubo, heihei) ==
    [tag |-> "DIV", cls |-> {"suumo-unit-price"},
     text |-> <<"sp", "x", "sp">> \o toLocaleString(tsubo)
                \o <<"man", "yen", "x", "x", "sp", "x", "sp", "x", "sp">>
                \o toLocaleString(heihei) \o <<"man", "yen", "x", "sqm", "sp">>,
     kids |-> <<>>, ann |-> "metrics", tsubo |-> tsubo, heihei |-> heihei]

legacyBlock(price, area) ==
    IF Computable(price, area)
    THEN legacyMetricsBlock(calculateTsuboPrice(price, area), calculateHeiheiPrice(price, area))
    ELSE PlaceholderBlock(FALSE)

\* the block is put in and the element is not marked
legacyPlaced_unmarked(cleared, element, priceElement, priceParent, block) ==
    IF Parent(cleared.dom, priceElement) = priceParent
    THEN InsertBlockAfter(cleared, priceElement, block)
    ELSE AppendBlock(cleared, priceParent, block)

\* lines 123-133: the new block is put after the price element, or at the
\* end of the parent when the price element has no next sibling; the
\* element is marked
legacyPlaced(cleared, element, priceElement, priceParent, block) ==
    IF Parent(cleared.dom, priceElement) = priceParent
    THEN Marked(InsertBlockAfter(cleared, priceElement, block), element)
    ELSE Marked(AppendBlock(cleared, priceParent, block), element)

\* lines 114-134: the block of the parent goes before the new one is put in
legacyInserted(st, element, priceElement, block) ==
    IF Parent(st.dom, priceElement) = NoNode THEN st
    ELSE legacyPlaced(RemoveExisting(st, Parent(st.dom, priceElement)), element,
                      priceElement, Parent(st.dom, priceElement), block)

\* lines 60-112: the price element decides, the area element may be missing
legacyLocated(st, element, priceElement, areaElement) ==
    IF priceElement = NoNode THEN st
    ELSE legacyInserted(st, element, priceElement,
             legacyBlock(legacyExtractNumber(textContent(st.dom, priceElement)),
                         legacyExtractNumber(ElementText(st.dom, areaElement))))

\* lines 46-135
legacyProcessProperty(st, element) ==
    IF element \in st.processed THEN st
    ELSE legacyLocated(st, element,
                       FirstBySelectors(st.dom, element, legacyPriceSelectors),
                       FirstBySelectors(st.dom, element, legacyAreaSelectors))

RECURSIVE legacyForEach(_, _)
legacyForEach(st, elements) ==
    IF elements = <<>> THEN st
    ELSE legacyForEach(legacyProcessProperty(st, Head(elements)), Tail(elements))

\* the cards are processed, then the detail boxes that are then in the page
legacyDetails(st) ==
    legacyForEach(st, querySelectorAllAny(st.dom, Body, <<Cls("detailbox"), ClsHas("detail")>>))

\* lines 140-152
legacyProcessAllProperties(st) ==
    legacyDetails(
        legacyForEach([st EXCEPT !.passes = @ + 1],
                      querySelectorAllAny(st.dom, Body,
                                          <<Cls("cassetteitem"), ClsHas("cassette")>>)))

\* lines 159-166: a record with an added node, whatever the node
legacyShouldProcess(records) == \E i \in 1..Len(records) : Len(records[i]) > 0

\* SUUMO, the classes of the legacy script: a card, a box that is both a
\* card and a detail box, and a card that comes with a later load
LegacyListing(p, a) ==
    Page(<<"suumo.jp">>,
         << El("BODY", {}, <<>>, <<1, 4>>),
            El("DIV", {"cassetteitem"}, <<>>, <<2>> \o Given(a, <<3>>)),
            El("SPAN", {"dkr-cassetteitem_price--num"}, p, <<>>),
            El("SPAN", {"dkr-cassetteitem_detail_text--area"}, a, <<>>),
            El("DIV", {"detailbox"}, <<>>, <<5>> \o Given(a, <<6>>)),
            El("SPAN", {"detailbox_property_price_txt"}, p, <<>>),
            El("SPAN", {"floor-area"}, a, <<>>),
            El("DIV", {"cassetteitem"}, <<>>, <<8>> \o Given(a, <<9>>)),
            El("SPAN", {"cassette_price--num"}, p, <<>>),
            El("SPAN", {"cassette_detail_text--area"}, a, <<>>) >>,
         << <<0, 7>> >>)

LegacyPages ==
    UNION { {LegacyListing(p, a), SuumoTable(p, a), SuumoListing(p, a)}
            : <<p, a>> \in PriceTexts \X AreaOptions }

InitLegacy ==
    /\ \E page \in LegacyPages :
          /\ hostname = page.hostname
          /\ dom = page.dom
          /\ deferred = page.deferred
    /\ pc = "loading"
    /\ processedElements = {}
    /\ calculationCache = {}
    /\ calcLog = <<>>
    /\ mutations = <<>>
    /\ button = "none"
    /\ exportPhase = "idle"
    /\ properties = <<>>
    /\ exportIndex = 0
    /\ exports = 0
    /\ passes = 0
    /\ faulty = NoNode
    /\ fetchLog = <<>>
    /\ cAmount = Num(1, 0)
    /\ cArea = Num(1, 0)
    /\ cTsubo = -1
    /\ cHeihei = -1
    /\ exText = <<>>
    /\ exResult = Null
    /\ exDone = FALSE
    /\ NoCsv

\* lines 184-190: the first pass, then the observer
legacyInit ==
    /\ pc = "loading"
    /\ Commit(Observed(legacyProcessAllProperties(St(FALSE))))
    /\ pc' = "ready"
    /\ UNCHANGED <<hostname, faulty, deferred, exportVars, fetchLog, calcVars, exVars, csvVars>>

\* lines 157-172: the callback of the observer, handed every pending record
legacyObserverCallback ==
    /\ mutations # <<>>
    /\ Commit(IF legacyShouldProcess(mutations)
              THEN legacyProcessAllProperties([St(TRUE) EXCEPT !.muts = <<>>])
              ELSE [St(TRUE) EXCEPT !.muts = <<>>])
    /\ UNCHANGED <<hostname, faulty, deferred, pc, exportVars, fetchLog, calcVars, exVars,
                   csvVars>>

NextLegacy ==
    \/ legacyInit
    \/ HostMutation
    \/ legacyObserverCallback

\* init() runs when the document is ready, and a callback of the observer
\* runs when records are pending: the weak fairness of the two handlers,
\* WF_vars(legacyInit) and WF_vars(legacyObserverCallback), written out with
\* the conditions under which the handlers are enabled
SpecLegacy ==
    /\ InitLegacy
    /\ [][NextLegacy]_vars
    /\ ([]<>(pc # "loading") \/ []<><<legacyInit>>_vars)
    /\ ([]<>(mutations = <<>>) \/ []<><<legacyObserverCallback>>_vars)

---------------------------------------------------------------------------
(* Claims about the calculators (SpecCalc) *)

Calculated == cTsubo # -1

\* r is the integer nearest to p / q, a half going up: r - 1/2 <= p/q < r + 1/2
IsRounded(r, p, q) == r \in Nat /\ (2 * r - 1) * q <= 2 * p /\ 2 * p < (2 * r + 1) * q

\* C1: for all amount > 0 and area > 0, calculateHeiheiPrice returns the
\* integer round(amount / area) and calculateTsuboPrice returns the integer
\* round(amount / (area / 3.3058)), a half rounding up.
C1_CalculatorsRound ==
    Calculated =>
        /\ IsRounded(cHeihei, cAmount.n * Pow10(cArea.e), cArea.n * Pow10(cAmount.e))
        /\ IsRounded(cTsubo, cAmount.n * Pow10(cArea.e) * 33058,
                             cArea.n * Pow10(cAmount.e) * 10000)

\* a call whose quotient amount / area lies exactly on a half (1 / 0.4 = 2.5)
C1_Witness ==
    Calculated /\ cAmount = Num(1, 0) /\ cArea = Num(4, 1) /\ cHeihei = 3

IsExample == cAmount = Num(25990, 0) /\ cArea = Num(70, 0)

\* C2 as stated: amount 25990 and area 70 give perAreaUnit 371 and
\* perTraditionalUnit 1228.
C2_Original == (Calculated /\ IsExample) => (cHeihei = 371 /\ cTsubo = 1228)

\* C2 as amended: amount 25990 and area 70 give perAreaUnit 371 and
\* perTraditionalUnit 1227 (25990 * 3.3058 / 70 = 1227.39...).
C2_ExampleValues == (Calculated /\ IsExample) => (cHeihei = 371 /\ cTsubo = 1227)

C2_Witness == Calculated /\ IsExample

---------------------------------------------------------------------------
(* Claims about extractNumber (SpecExtract) *)

HasAreaMarker(t) == Includes(t, "LABEL") \/ Includes(t, "m") \/ Includes(t, "sqm")

HasDigit(t) == \E k \in 1..Len(t) : IsDigit(t[k])

TaggedValue(t, m) == IF m = NoMatch THEN Num(0, 0) ELSE parseFloat(StripCommas(Capture(t, m)))

\* C3: for any text without an area marker that contains a number L followed
\* by oku and/or a number S followed by man, extractNumber returns
\* L * 10000 + S, an absent part counting as 0.
C3_TaggedSum ==
    (/\ exDone
     /\ exText # NullText
     /\ ~HasAreaMarker(exText)
     /\ (OkuMatch(exText) # NoMatch \/ ManMatch(exText) # NoMatch))
    => exResult = NumAdd(NumTimes(TaggedValue(exText, OkuMatch(exText)), 10000),
                         TaggedValue(exText, ManMatch(exText)))

\* t is exactly one number written in comma-separated digit groups (at least
\* one comma), tagged with man and optionally followed by yen
RECURSIVE IsGroups(_)
IsGroups(s) ==
    \/ AllDigits(s, 1, Len(s))
    \/ \E c \in 2..(Len(s) - 1) :
          s[c] = "," /\ AllDigits(s, 1, c - 1) /\ IsGroups(SubSeq(s, c + 1, Len(s)))

ManTagAt(t) == CHOOSE u \in 1..Len(t) : t[u] = "man"

IsSeparatedMan(t) ==
    /\ t # NullText
    /\ Includes(t, "man")
    /\ Includes(t, ",")
    /\ IsGroups(SubSeq(t, 1, ManTagAt(t) - 1))
    /\ SubSeq(t, ManTagAt(t) + 1, Len(t)) \in {<<>>, <<"yen">>}

\* C4: for any small-unit-tagged number written with thousands separators,
\* one or several, extractNumber returns the value of the whole number with
\* all separators stripped.
C4_SeparatorsStripped ==
    (exDone /\ IsSeparatedMan(exText))
    => exResult = Num(DigitsValue(StripCommas(SubSeq(exText, 1, ManTagAt(exText) - 1))), 0)

\* a decimal number that no digit or dot extends, directly before a unit suffix
PrecedesUnit(t, i, j) ==
    /\ IsDecimal(t, i, j)
    /\ j < Len(t) /\ IsUnit(t[j + 1])
    /\ (i = 1 \/ ~(IsDigit(t[i - 1]) \/ t[i - 1] = "."))

\* C5 as stated: whenever the text contains an area marker, extractNumber
\* returns the decimal number immediately preceding the unit suffix.
C5_Original ==
    (exDone /\ exText # NullText /\ HasAreaMarker(exText))
    => \E m \in Spans(exText) :
          PrecedesUnit(exText, m[1], m[2]) /\ exResult = parseFloat(Capture(exText, m))

\* the first digit that follows a label with no digit in between
AfterLabel(t, i) ==
    /\ IsDigit(t[i])
    /\ \E l \in 1..(i - 1) : t[l] = "LABEL" /\ \A k \in (l + 1)..(i - 1) : ~IsDigit(t[k])

\* t[i..j] is a decimal number followed, after optional whitespace, by a unit
BeforeUnit(t, i, j) ==
    /\ IsDecimal(t, i, j)
    /\ \E u \in (j + 1)..Len(t) : IsUnit(t[u]) /\ \A k \in (j + 1)..(u - 1) : t[k] = "sp"

Labelled(t) == \E i \in 1..Len(t) : AfterLabel(t, i)

Suffixed(t) == \E m \in Spans(t) : BeforeUnit(t, m[1], m[2])

\* C5 as amended: if the label is followed, after non-digits, by a decimal
\* number, extractNumber returns that number (the first one after the first
\* label); otherwise, if a decimal number is followed, after optional
\* whitespace, by m or the square-metre sign, it returns the first such
\* number.  Either way the value is returned unconverted and the currency
\* rules are not consulted.  A marker with neither pattern leaves the text to
\* the currency and fallback rules.
C5_AreaRules ==
    (exDone /\ exText # NullText) =>
        /\ Labelled(exText) =>
              \E m \in Spans(exText) :
                 /\ AfterLabel(exText, m[1])
                 /\ \A i \in 1..(m[1] - 1) : ~AfterLabel(exText, i)
                 /\ IsDecimal(exText, m[1], m[2])
                 /\ \A j \in (m[2] + 1)..Len(exText) : ~IsDecimal(exText, m[1], j)
                 /\ exResult = parseFloat(Capture(exText, m))
        /\ (~Labelled(exText) /\ Suffixed(exText)) =>
              \E m \in Spans(exText) :
                 /\ BeforeUnit(exText, m[1], m[2])
                 /\ \A n \in Spans(exText) :
                       BeforeUnit(exText, n[1], n[2]) => m[1] <= n[1]
                 /\ exResult = parseFloat(Capture(exText, m))

\* a text with a man-tagged price and a unit-suffixed area: the area wins
C5_Witness ==
    /\ exDone
    /\ exText = <<"1", "2", ",", "9", "0", "0", "man", "yen", "sp", "7", "0", "sqm">>
    /\ exResult = Num(70, 0)

\* C6: for every string or null input, extractNumber returns null or a
\* non-negative finite number, never NaN, and null whenever the text holds
\* no digit.
C6_NullOrNumber ==
    exDone =>
        /\ exResult = Null \/ (IsNum(exResult) /\ exResult.n >= 0)
        /\ (exText = NullText \/ ~HasDigit(exText)) => exResult = Null

---------------------------------------------------------------------------
(* Claims about the page (Spec) *)

NoRepeat(q) == \A i, j \in 1..Len(q) : i # j => q[i] # q[j]

\* C7: within one page view, over any sequence of display passes and export
\* runs, the calculators run at most once for each distinct (amount, area)
\* pair: no pair is in the log of calculator runs twice.
C7_ComputedOnce == NoRepeat(calcLog)

IsBlock(d, n) == "suumo-unit-price" \in d[n].cls

RECURSIVE Following(_, _)
\* the annotation blocks that directly follow n among its siblings
Following(d, n) ==
    IF NextElementSibling(d, n) # NoNode /\ IsBlock(d, NextElementSibling(d, n))
    THEN {NextElementSibling(d, n)} \cup Following(d, NextElementSibling(d, n))
    ELSE {}

\* the annotation blocks at the anchor of a price element: inside it when it
\* is in a table, right after it otherwise
AnchorBlocks(d, p) ==
    IF HasClosest(d, p, "TABLE") THEN {n \in SeqToSet(d[p].kids) : IsBlock(d, n)}
    ELSE Following(d, p)

\* C8: an element that was processed has exactly one annotation block at its
\* price anchor, and a further call of processProperty on it changes
\* neither the document, the cache nor the set of processed elements.
C8_OneBlockAndNoOp ==
    \A e \in processedElements :
        /\ processProperty(St(TRUE), e, site) = St(TRUE)
        /\ findPriceElement(dom, e, site) # NoNode =>
              Cardinality(AnchorBlocks(dom, findPriceElement(dom, e, site))) = 1

\* an attached placeholder block
PlaceholderShown == \E n \in Attached(dom) : dom[n].ann = "na"

\* the display passes that were due have run
Settled == pc = "ready" /\ mutations = <<>>

\* the price element of the page of one property
DetailPriceElement ==
    IF site = "SUUMO" THEN querySelector(dom, Body, Cls2("mt7", "b"))
    ELSE detailValues(dom, site).priceElement

\* C9: when a display pass has found a price but no area, for a card or for
\* the page of one property, a placeholder block is in the document.
C9_PlaceholderRendered ==
    Settled =>
        /\ \A e \in SeqToSet(propertyCards(dom, site)) :
              (/\ findPriceElement(dom, e, site) # NoNode
               /\ findAreaElement(dom, e, site) = NoNode) => PlaceholderShown
        /\ (/\ propertyCards(dom, site) = <<>>
            /\ DetailPriceElement # NoNode
            /\ ~detailValues(dom, site).found) => PlaceholderShown

\* a display pass starts from this state: init has not run, or the observer
\* holds a record of an added element that is no annotation block
PassDue == pc = "loading" \/ shouldProcess(mutations)

PassStart == IF pc = "loading" THEN St(FALSE) ELSE [St(TRUE) EXCEPT !.muts = <<>>]

\* the state in which that pass makes its k-th call of processProperty
CallStart(k) == ProcessCards(PassStart, SubSeq(propertyCards(dom, site), 1, k - 1), site)

PresentPositive(v) == v.k = "num" /\ v.n > 0

\* the blocks a call created
NewBlocks(st, r) == {n \in Nodes(r.dom) : st.dom[n] = Blank /\ r.dom[n] # Blank}

\* the call of processProperty on e in state st renders the metrics exactly
\* when amount and area are present and positive, and touches the cache only then
MetricsIffPositive(st, e) ==
    LET r == processProperty(st, e, site)
        p == findPriceElement(st.dom, e, site)
        price == extractNumber(textContent(st.dom, p))
        area == extractNumber(ElementText(st.dom, findAreaElement(st.dom, e, site)))
        both == PresentPositive(price) /\ PresentPositive(area)
    IN  (e \notin st.processed /\ p # NoNode) =>
          /\ \A n \in NewBlocks(st, r) :
                IF both
                THEN /\ r.dom[n].ann = "metrics"
                     /\ r.dom[n].text = MetricsText(calculateTsuboPrice(price, area),
                                                    calculateHeiheiPrice(price, area))
                ELSE /\ r.dom[n].ann = "na"
                     /\ r.dom[n].text = PlaceholderText
          /\ both => CacheHas(r.cache, price, area)
          /\ ~both => r.cache = st.cache /\ r.log = st.log

\* C10: the annotation a call of processProperty inserts for a card shows
\* the two metrics if and only if the extracted amount and area are both
\* present and strictly positive, and the placeholder for both otherwise;
\* a pair of unit prices is computed or cached only in the first case.
C10_MetricsIffPositive ==
    PassDue =>
        \A k \in 1..Len(propertyCards(dom, site)) :
            MetricsIffPositive(CallStart(k), propertyCards(dom, site)[k])

\* a card was processed, its metrics are shown and their pair is cached
C10_Witness ==
    /\ Settled
    /\ processedElements # {}
    /\ calculationCache # {}
    /\ \E n \in Attached(dom) : dom[n].ann = "metrics"

\* the call of processProperty on e in state st: without a price element it
\* changes nothing; with one that is no annotation block it marks e and
\* leaves a block at the price element
AbortOrAnnotate(st, e) ==
    LET p == findPriceElement(st.dom, e, site)
        r == processProperty(st, e, site)
    IN  e \notin st.processed =>
          /\ p = NoNode => r = st
          /\ (p # NoNode /\ ~IsBlock(st.dom, p)) =>
                e \in r.processed /\ AnchorBlocks(r.dom, p) # {}

\* C11: when no price locator matches inside an element, processProperty
\* inserts no annotation and does not add the element to the processed set;
\* a later pass in which a price element has appeared inside it processes
\* and annotates it, so that once the passes that were due have run no
\* unprocessed card holds a price element.
C11_AbortThenRetry ==
    /\ PassDue =>
          \A k \in 1..Len(propertyCards(dom, site)) :
              AbortOrAnnotate(CallStart(k), propertyCards(dom, site)[k])
    /\ Settled =>
          \A e \in SeqToSet(propertyCards(dom, site)) \ processedElements :
              findPriceElement(dom, e, site) = NoNode

\* the unit whose price arrived after the first pass is processed and annotated
C11_Witness ==
    /\ Settled
    /\ deferred = <<>>
    /\ 1 \in processedElements
    /\ "cassetteitem" \in dom[1].cls
    /\ Parent(dom, 2) = 1
    /\ "dottable-value" \in dom[2].cls
    /\ AnchorBlocks(dom, 2) # {}
    /\ passes >= 3

\* the batch holds an added element node that does not carry the annotation class
HasForeignElement(batch) ==
    \E i \in 1..Len(batch) : \E j \in 1..Len(batch[i]) :
        batch[i][j].nodeType = 1 /\ ~("suumo-unit-price" \in batch[i][j].cls)

\* the callback leaves the page as it is but for the records it consumed
NoPass ==
    /\ passes' = passes
    /\ dom' = dom
    /\ processedElements' = processedElements
    /\ calculationCache' = calculationCache
    /\ mutations' = <<>>

\* C12: the observer callback runs a processing pass if and only if its
\* batch holds an added element node without the annotation class; a batch
\* of the extension's own insertions, of removals or of added text nodes
\* runs none.  (Every step taken with records pending is the callback.)
C12_FilteredTrigger ==
    [][mutations # <<>> =>
         IF HasForeignElement(mutations) THEN passes' = passes + 1 ELSE NoPass]_vars

\* on a page of one property a pass run for an element of the host has
\* rendered its blocks again, and the records of that rendering ran no pass
C12_Witness ==
    /\ Settled
    /\ deferred = <<>>
    /\ button = "none"
    /\ passes = 2
    /\ \E n \in Attached(dom) : dom[n].ann = "metrics"

\* the cards the export collection leaves out: their try block threw
Dropped == Len(collectAttempts(dom, site)) - Len(collectRecords(dom, site))

\* C13: an exception raised while one element is processed is caught for
\* that element, in the display pass and in the export collection: the pass
\* completes, every other card that holds a price element is processed,
\* and the export run keeps the record of every other card.
C13_IsolatedPerElement ==
    /\ [](pc # "failed")
    /\ []((pc = "ready" /\ mutations = <<>>) =>
            \A e \in SeqToSet(propertyCards(dom, site)) \ (processedElements \cup {faulty}) :
                findPriceElement(dom, e, site) = NoNode)
    /\ [][(exportPhase = "idle" /\ exportPhase' # "idle") =>
             Len(properties') = Len(propertyCards(dom, site)) - Dropped]_vars

\* the fetch for record i has returned
Returned(log, i) == \E j \in 1..Len(log) : log[j].i = i /\ log[j].ev \in {"done", "failed"}

\* C14: a detail fetch that fails yields an empty field set and no
\* exception: the record keeps its fields as they were, the export loop goes
\* on (to the pause before the next record, or to its end after the last),
\* and at the end of the loop the fetch of every record with a url has returned.
C14_FailedFetchTolerated ==
    /\ [][(exportPhase = "fetch" /\ fetchLog' # fetchLog /\ Last(fetchLog').ev = "failed") =>
             /\ properties' = properties
             /\ exportPhase' = IF exportIndex < Len(properties) THEN "sleep2000"
                                ELSE "collected"]_vars
    /\ []((exportPhase = "collected" /\ site = "SUUMO") =>
            \A i \in 1..Len(properties) : properties[i].url # "" => Returned(fetchLog, i))

\* a fetch has failed, its record still holds the layout read from the card,
\* and the export run has gone on to the download
C14_Witness ==
    /\ exportPhase = "reset"
    /\ \E j \in 1..Len(fetchLog) :
          fetchLog[j].ev = "failed" /\ properties[fetchLog[j].i].layout # <<>>

\* the table rows of the document whose header cell holds the price label
PriceRows(d) ==
    {row \in Attached(d) : d[row].tag = "TR" /\ RowHasLabel(d, row, "PRICE")}

\* C15: when the enumeration of cards is empty the page is handled as the
\* page of one property, and once the pass has run every table row whose
\* header cell holds the price label holds the annotation.
C15_DetailRowsAnnotated ==
    (Settled /\ propertyCards(dom, site) = <<>>) =>
        \A row \in PriceRows(dom) : \E n \in SeqToSet(Desc(dom, row)) : IsBlock(dom, n)

\* the card locators of a profile that has alternatives, in their order
CardLocators(profile) ==
    CASE profile = "REHOUSE" -> <<Cls("property-index-card")>>
      [] profile = "ATHOME" -> <<Cls("card-box-inner__detail")>>
      [] OTHER -> <<Cls("cassetteitem"), Cls("dottable--cassette"), ClsHas("cassette")>>

RECURSIVE FirstNonEmpty(_, _)
\* the result set of the first locator that matches anything
FirstNonEmpty(d, locators) ==
    IF locators = <<>> THEN <<>>
    ELSE IF querySelectorAll(d, Body, Head(locators)) # <<>>
    THEN querySelectorAll(d, Body, Head(locators))
    ELSE FirstNonEmpty(d, Tail(locators))

\* C16: the cards of a page are the result set of the first card locator of
\* the profile that matches anything; result sets of alternatives are not
\* merged, except for the HOMES profile, whose cards are the standard
\* cards together with the grouped cards.
C16_FirstLocatorWins ==
    IF site = "HOMES"
    THEN \A t \in SeqToSet(querySelectorAll(dom, Body, Under2("unitSummary", "TBODY", "TR"))) :
             t \in SeqToSet(propertyCards(dom, site))
    ELSE propertyCards(dom, site) = FirstNonEmpty(dom, CardLocators(site))

\* the least of a non-empty set of indices
Least(S) == CHOOSE i \in S : \A j \in S : i <= j

\* what an area selector finds in a card when only the selector counts
PlainTarget(d, e, sel) == querySelector(d, e, sel)

\* the first of the elements that hold a unit (the square-metre sign or m)
FirstWithUnit(d, els) ==
    LET S == {i \in 1..Len(els) : HasUnitText(textContent(d, els[i]))}
    IN  IF S = {} THEN NoNode ELSE els[Least(S)]

\* the blocks that hold the area label and a span with a unit
LabelledBlocks(d, blocks) ==
    {i \in 1..Len(blocks) :
        /\ Includes(textContent(d, blocks[i]), "LABEL")
        /\ FirstWithUnit(d, querySelectorAll(d, blocks[i], Tag("SPAN"))) # NoNode}

\* what an area selector finds in a card: the REHOUSE paragraph and the
\* ATHOME block count only with their text
TextTarget(d, e, profile, sel) ==
    IF profile = "REHOUSE" /\ sel = Cls("paragraph-body")
    THEN FirstWithUnit(d, querySelectorAll(d, e, sel))
    ELSE IF profile = "ATHOME" /\ sel = Cls("property-detail-table__block")
    THEN LET blocks == querySelectorAll(d, e, sel)
         IN  IF LabelledBlocks(d, blocks) = {} THEN NoNode
             ELSE FirstWithUnit(d, querySelectorAll(d, blocks[Least(LabelledBlocks(d, blocks))],
                                                    Tag("SPAN")))
    ELSE querySelector(d, e, sel)

\* the price element of a card is the target of the first price selector
\* that matches in it
PriceInOrder(d, e) ==
    LET sels == priceSelectors(site)
        S == {i \in 1..Len(sels) : querySelector(d, e, sels[i]) # NoNode}
    IN  S # {} => findPriceElement(d, e, site) = querySelector(d, e, sels[Least(S)])

\* the area element of a card is the target of the first area selector that
\* matches in it, by selector alone
AreaInOrder(d, e) ==
    LET sels == areaSelectors(site)
        S == {i \in 1..Len(sels) : PlainTarget(d, e, sels[i]) # NoNode}
    IN  S # {} => findAreaElement(d, e, site) = PlainTarget(d, e, sels[Least(S)])

\* the same, the REHOUSE paragraph and the ATHOME block taken with their text
AreaInOrderByText(d, e) ==
    LET sels == areaSelectors(site)
        S == {i \in 1..Len(sels) : TextTarget(d, e, site, sels[i]) # NoNode}
    IN  S # {} => findAreaElement(d, e, site) = TextTarget(d, e, site, sels[Least(S)])

\* C17 as stated: within a card the locators are tried in the listed order
\* and the first that matches wins, for the price and for the area: with a
\* target of a specific selector and a target of the generic selector in
\* the card, the specific selector's target is used.
C17_Original ==
    \A e \in SeqToSet(propertyCards(dom, site)) : PriceInOrder(dom, e) /\ AreaInOrder(dom, e)

\* C17, amended: the same, where the REHOUSE selector .paragraph-body
\* matches only through an element whose text holds a unit and the ATHOME
\* selector .property-detail-table__block only through a unit-bearing span
\* of a block that holds the area label.
C17_SelectorOrder ==
    \A e \in SeqToSet(propertyCards(dom, site)) :
        PriceInOrder(dom, e) /\ AreaInOrderByText(dom, e)

\* a processed card holds a target of the generic price selector before the
\* target of the specific one, and the block is at the specific one
C17_Witness ==
    /\ Settled
    /\ \E e \in processedElements :
          LET specific == querySelector(dom, e, Head(priceSelectors(site)))
              generic == querySelector(dom, e, ClsHas("price"))
          IN  /\ specific # NoNode
              /\ generic # NoNode
              /\ generic # specific
              /\ ~IsBlock(dom, generic)
              /\ AnchorBlocks(dom, specific) # {}

\* the table of known host strings, in the order they are looked up
KnownHosts ==
    << [host |-> "rehouse.co.jp", profile |-> "REHOUSE"],
       [host |-> "athome.co.jp", profile |-> "ATHOME"],
       [host |-> "homes.co.jp", profile |-> "HOMES"] >>

\* the entries of the table whose host string the hostname contains
Matching(host) ==
    {k \in 1..Len(KnownHosts) : \E i \in 1..Len(host) : host[i] = KnownHosts[k].host}

\* C18: every hostname resolves to exactly one site profile: a hostname
\* that contains a known host string gets that host's profile (of the first
\* such string of the table when it contains several), every other hostname
\* gets the SUUMO profile, and the profile never changes in a page view.
C18_OneProfile ==
    /\ [](/\ site \in {"REHOUSE", "ATHOME", "HOMES", "SUUMO"}
          /\ IF Matching(hostname) = {} THEN site = "SUUMO"
             ELSE site = KnownHosts[Least(Matching(hostname))].profile)
    /\ [][site' = site]_vars

\* the script has started on a hostname that holds a known host string
\* after another part, and has that host's profile
C18_Witness ==
    /\ pc = "ready"
    /\ hostname = <<"at", "homes.co.jp">>
    /\ site = "HOMES"

\* the call of processProperty on e in state st finds a price element outside
\* a table and leaves it without a parent
LosesParent(st, e) ==
    LET p == findPriceElement(st.dom, e, site)
    IN  /\ e \notin st.processed
        /\ p # NoNode
        /\ ~HasClosest(st.dom, p, "TABLE")
        /\ Parent(st.dom, p) # NoNode
        /\ Parent(processProperty(st, e, site).dom, p) = NoNode

Starts(log) == {j \in 1..Len(log) : log[j].ev = "start"}

Returns(log) == {j \in 1..Len(log) : log[j].ev \in {"done", "failed"}}

\* the detail fetches that are issued and have not returned
InFlight(log) == Cardinality(Starts(log)) - Cardinality(Returns(log))

\* C20: in an export run the detail fetches are issued one after the other
\* in the order of the records: at most one fetch is in flight at any time,
\* and between the return of a fetch and the start of the next a delay
\* has run to its end.
C20_SequentialFetches ==
    /\ InFlight(fetchLog) \in {0, 1}
    /\ InFlight(fetchLog) = 1 <=> exportPhase = "fetch"
    /\ \A j, k \in Starts(fetchLog) :
          j < k =>
            /\ fetchLog[j].i < fetchLog[k].i
            /\ \E c, s \in j..k :
                  /\ c < s
                  /\ c \in Returns(fetchLog)
                  /\ fetchLog[c].i = fetchLog[j].i
                  /\ fetchLog[s].ev = "sleep"

\* a second detail fetch is in flight, after the first has returned and
\* the delay has run
C20_Witness ==
    /\ exportPhase = "fetch"
    /\ Cardinality(Starts(fetchLog)) >= 2
    /\ Cardinality(Returns(fetchLog)) = Cardinality(Starts(fetchLog)) - 1
    /\ \E s \in 1..Len(fetchLog) : fetchLog[s].ev = "sleep"

\* C21: processedElements and calculationCache only grow: no step of a page
\* view (display pass, mutation, export) takes an element out of
\* processedElements, takes an entry out of the cache or gives a key of the
\* cache another value.
C21_OnlyGrow ==
    /\ [](\A c1, c2 \in calculationCache : c1.key = c2.key => c1 = c2)
    /\ [][/\ processedElements \subseteq processedElements'
          /\ calculationCache \subseteq calculationCache']_vars

\* after several passes and an export, two elements are in processedElements
\* and two pairs in the cache
C21_Witness ==
    /\ Settled
    /\ passes >= 2
    /\ exports >= 1
    /\ Cardinality(processedElements) >= 2
    /\ Cardinality(calculationCache) >= 2

\* an added node that is the extension's: a block, the export control, or
\* the text of the control's label
OwnAdded(node) ==
    \/ node.nodeType = 1 /\ ("suumo-unit-price" \in node.cls \/ ButtonClass \in node.cls)
    \/ node.nodeType = 3

\* a node of the document that is the extension's
OwnNode(d, n) == "suumo-unit-price" \in d[n].cls \/ ButtonClass \in d[n].cls

\* the nodes a step put into the document or took out of it
Written ==
    {n \in Nodes(dom') : (n \in Attached(dom)) # (n \in Attached(dom'))}

\* C22: the only writes of the extension to the document are insertions and
\* removals of annotation blocks and the insertion of the export control:
\* no step of the extension (display pass, export collection, download)
\* inserts or removes another node.
C22_OnlyOwnWrites ==
    [][deferred' = deferred =>
          /\ \A n \in Written : OwnNode(dom, n) \/ OwnNode(dom', n)
          /\ \A i \in 1..Len(mutations') : \A j \in 1..Len(mutations'[i]) :
                OwnAdded(mutations'[i][j])]_vars

\* the export controls in the document
Controls(d) == {n \in Attached(d) : ButtonClass \in d[n].cls}

\* C23: the export control is in the page only when init() found at least
\* one card, and at every moment the page holds at most one export control.
C23_OneControlOnListing ==
    /\ [](/\ Cardinality(Controls(dom)) <= 1
          /\ Controls(dom) # {} <=> button # "none")
    /\ [][IF pc = "loading"
          THEN Controls(dom') # {} <=> (pc' = "ready" /\ propertyCards(dom', site) # <<>>)
          ELSE Controls(dom') = Controls(dom)]_vars

\* the one control of a page with cards is still there after an export
C23_Witness ==
    /\ Settled
    /\ exports >= 1
    /\ exportPhase = "idle"
    /\ button = "enabled"
    /\ Cardinality(Controls(dom)) = 1
    /\ propertyCards(dom, site) # <<>>

\* The reading of a CSV text by the quoting rules: inside quotes a doubled
\* quote is one quote and a single quote ends the quoted part; outside
\* quotes a comma ends the field and a newline ends the row.
RECURSIVE CsvRead(_, _, _, _, _, _)
CsvRead(text, i, quoted, field, row, rows) ==
    IF i > Len(text) THEN Append(rows, Append(row, field))
    ELSE IF quoted
    THEN IF text[i] # "q" THEN CsvRead(text, i + 1, TRUE, Append(field, text[i]), row, rows)
         ELSE IF i < Len(text) /\ text[i + 1] = "q"
         THEN CsvRead(text, i + 2, TRUE, Append(field, "q"), row, rows)
         ELSE CsvRead(text, i + 1, FALSE, field, row, rows)
    ELSE CASE text[i] = "q" -> CsvRead(text, i + 1, TRUE, field, row, rows)
           [] text[i] = "," -> CsvRead(text, i + 1, FALSE, <<>>, Append(row, field), rows)
           [] text[i] = "nl" -> CsvRead(text, i + 1, FALSE, <<>>, <<>>,
                                        Append(rows, Append(row, field)))
           [] OTHER -> CsvRead(text, i + 1, FALSE, Append(field, text[i]), row, rows)

\* a field value as a text: null is the empty text
Shown(value) == IF value = NullValue THEN <<>> ELSE value

Special(value) == \E i \in 1..Len(Shown(value)) : Shown(value)[i] \in {",", "q", "nl"}

\* the field values of a record in the order of the header
ShownFields(property) == << Shown(property.name), Shown(property.address) >>

\* C24: generateCSV emits every field value that holds a comma, a quote or
\* a newline in double quotes with its quotes doubled, and every other
\* value as it is: read by the quoting rules, the text gives the header and
\* then, row by row, the field values of the records in the order of the
\* header.
C24_QuotedRoundTrip ==
    (csvDone /\ csvProperties # <<>>) =>
        /\ CsvRead(csvText, 1, FALSE, <<>>, <<>>, <<>>)
              = << <<<<"NAME">>, <<"ADDRESS">>>> >>
                  \o [i \in 1..Len(csvProperties) |-> ShownFields(csvProperties[i])]
        /\ (\A i \in 1..Len(csvProperties) :
               ~Special(csvProperties[i].name) /\ ~Special(csvProperties[i].address))
            => csvText = <<"NAME", ",", "ADDRESS">>
                           \o Join([i \in 1..Len(csvProperties) |->
                                       <<"nl">> \o Shown(csvProperties[i].name) \o <<",">>
                                         \o Shown(csvProperties[i].address)], <<>>)

\* the text of a record whose name holds a quote and a comma has been made
C24_Witness ==
    /\ csvDone
    /\ Len(csvProperties) = 2
    /\ csvProperties[1].name = <<"q", ",">>
    /\ csvProperties[1].address = <<"nl", "x">>
    /\ csvText = <<"NAME", ",", "ADDRESS", "nl",
                   "q", "q", "q", ",", "q", ",", "q", "nl", "x", "q", "nl",
                   "x", ",", "x", "x">>

\* C25: no division by a zero area: at every call site (display of a card,
\* display of the page of one property, collection for the export) the two
\* calculators are run only on an amount above zero and an area above zero,
\* whatever extractNumber has returned.
C25_CalculatorsGuarded ==
    \A i \in 1..Len(calcLog) :
        PresentPositive(calcLog[i][1]) /\ PresentPositive(calcLog[i][2])

\* an export has collected a card whose area text gives zero: the calculators
\* were not run on it
C25_Witness ==
    /\ exportPhase = "collected"
    /\ \E i \in 1..Len(properties) :
          /\ properties[i].price.k = "num" /\ properties[i].price.n > 0
          /\ properties[i].area.k = "num" /\ properties[i].area.n = 0
          /\ ~properties[i].computed
    /\ \E i \in 1..Len(properties) : properties[i].computed

\* the blocks in the document
Blocks(d) == {n \in Attached(d) : IsBlock(d, n)}

\* the blocks at the price element at the top of the page of one property:
\* those among its later siblings
TopBlocks(d) ==
    IF DetailPriceElement = NoNode THEN {} ELSE Following(d, DetailPriceElement)

\* C26: on the page of one property whose content does not change,
\* rendering again is idempotent: after any number of passes the price
\* element at the top and every cell of a price row hold one block each, so
\* the number of blocks does not grow with the passes, whatever the order in
\* the document of the top price element and the price rows under a common
\* parent.
C26_DetailIdempotent ==
    /\ []((Settled /\ propertyCards(dom, site) = <<>>) =>
            /\ Cardinality(TopBlocks(dom)) <= 1
            /\ \A n \in Attached(dom) :
                  dom[n].tag = "TD" =>
                      Cardinality({k \in SeqToSet(dom[n].kids) : IsBlock(dom, k)}) <= 1)
    /\ [][(propertyCards(dom, site) = <<>> /\ passes >= 1 /\ Blocks(dom) # {})
            => Cardinality(Blocks(dom')) <= Cardinality(Blocks(dom))]_vars

\* the terms of a card that hold the area label and are followed at once by
\* a description
LabelledTerms(d, e) ==
    SelectSeq(querySelectorAll(d, e, Tag("DT")),
              LAMBDA dt : /\ Includes(textContent(d, dt), "LABEL")
                          /\ NextElementSibling(d, dt) # NoNode
                          /\ d[NextElementSibling(d, dt)].tag = "DD")

\* what the rules after the term rule find in a card
LaterAreaRules(d, e) ==
    IF SpanRule(d, e) # NoNode THEN SpanRule(d, e)
    ELSE IF d[e].tag = "TR" THEN RowArea(d, e, site)
    ELSE NoNode

\* C27: when no area selector matches in a card, the term rule selects the
\* DD that follows at once the first DT with the area label, and nothing
\* when there is no such pair: the span rule and the table-row rule are
\* then still tried.
C27_TermRuleTakesDescription ==
    \A e \in SeqToSet(propertyCards(dom, site)) :
        AreaBySelectors(dom, e, site, areaSelectors(site)) = NoNode =>
            findAreaElement(dom, e, site)
                = IF LabelledTerms(dom, e) # <<>>
                  THEN NextElementSibling(dom, Head(LabelledTerms(dom, e)))
                  ELSE LaterAreaRules(dom, e)

\* C28: in the legacy script, whose observer runs a pass on every batch with
\* an added node, its own blocks included, the passes come to an end: a
\* pass that inserts a block marks an element that was not marked, and on a
\* page that the host no longer changes the pending records run out, so
\* that no further pass is triggered.
C28_LegacyTerminates ==
    /\ [][(deferred' = deferred /\ mutations' # <<>>)
            => (processedElements \subseteq processedElements'
                /\ processedElements' # processedElements)]_vars
    /\ <>[](pc = "ready" /\ mutations = <<>>)

\* a pass that the blocks of the pass before it triggered has inserted
\* nothing: blocks are in the page and no record is pending
C28_Witness ==
    /\ pc = "ready"
    /\ deferred = <<>>
    /\ mutations = <<>>
    /\ passes = 3
    /\ Cardinality(processedElements) >= 3
    /\ Cardinality(Blocks(dom)) >= 3

\* C29: merging the detail-page information into a record never replaces a
\* field that the listing card had filled with an empty value: a layout
\* that is not empty before fetchDetailPageInfo returns is not empty after
\* the merge.
C29_MergeKeepsFields ==
    [][exportPhase = "fetch" =>
          \A i \in DOMAIN properties :
              properties[i].layout # <<>> => properties'[i].layout # <<>>]_vars

\* C30: the export control is disabled from the click that starts an export
\* run until the run is over, a run starts only when no run is in progress,
\* and with every fetch and timer completing every run that has started
\* comes back to the idle state with the control enabled.
C30_ControlDisabledWhileExporting ==
    /\ [](exportPhase # "idle" => button = "disabled")
    /\ [][exports' # exports => (exportPhase = "idle" /\ button = "enabled"
                                  /\ button' = "disabled")]_vars
    /\ (exportPhase # "idle") ~> (exportPhase = "idle" /\ button = "enabled")

\* a run with a detail fetch is over and the control is enabled again
C30_Witness ==
    /\ exports >= 1
    /\ exportPhase = "idle"
    /\ button = "enabled"
    /\ \E j \in DOMAIN fetchLog : fetchLog[j].ev = "done"

===========================================================================
